---- MODULE Spec2Model ----
(***************************************************************************)
(* Model of demeter's back-test kernel.                                    *)
(*                                                                         *)
(* Part 1: Actuator (src/demeter/core/actuator.py): run() as a sequence of *)
(* steps, the action log, the per-tick buffer, the account status list and *)
(* the finished flag, together with the part of the markets the loop       *)
(* touches (status binding, dirty flag, update()).                         *)
(***************************************************************************)
EXTENDS Integers, Sequences, FiniteSets, TLC

(***************************************************************************)
(* Bounds of the model.                                                    *)
(***************************************************************************)
\* longest data index (number of rows of a market's data)
MaxLen == 3
\* number of run() calls on one Actuator
MaxRuns == 2
\* market operations the strategy issues in one run
MaxOps == 1
\* registered triggers (strategy.triggers)
MaxTriggers == 2

(***************************************************************************)
(* Values.                                                                 *)
(***************************************************************************)
\* Python's None for a timestamp (Currents.timestamp, an unbound status)
None == 0

\* expiry_time of the option instrument of the order-book data, and the last
\* timestamp at which the instrument is a row of the order book
InstrumentExpiry == 2

LastListed == InstrumentExpiry

Tokens == {"eth", "usdc"}

\* a uniformly spaced index: n rows from start with the given interval
RECURSIVE UniformIndex(_, _, _)
UniformIndex(start, step, n) ==
    IF n = 0 THEN << >> ELSE <<start>> \o UniformIndex(start + step, step, n - 1)

\* the same index with its last row one interval late (a gap before it)
GappedIndex(start, step, n) ==
    [i \in 1..n |-> IF i = n THEN start + step * n ELSE start + step * (i - 1)]

\* data indexes the data source may deliver: ordered, possibly with a gap
IndexChoices ==
    {UniformIndex(1, 1, n) : n \in 0..MaxLen}
        \cup {UniformIndex(1, 2, MaxLen), GappedIndex(1, 1, MaxLen)}

\* the indexes of full length
FullIndexChoices == {i \in IndexChoices : Len(i) = MaxLen}

\* price tables: a longer table may cover a shorter market index
PriceIndexChoices ==
    {UniformIndex(1, 1, MaxLen + 1), UniformIndex(2, 1, MaxLen), UniformIndex(1, 2, MaxLen)}

\* registered markets: none, an option market, an option and a vault market
MarketChoices ==
    {<< >>}
        \cup {<<[kind |-> "deribit", index |-> i]>> : i \in IndexChoices}
        \cup {<<[kind |-> "deribit", index |-> i], [kind |-> "squeeth", index |-> j]>> :
                i \in FullIndexChoices, j \in FullIndexChoices \cup {UniformIndex(1, 1, MaxLen - 1)}}

Range(s) == {s[i] : i \in 1..Len(s)}

Last(s) == s[Len(s)]

VARIABLES
    \* configuration
    markets,              \* broker.markets, in registration order
    token_prices,         \* Actuator._token_prices
    assets,               \* broker.assets (token names)
    triggers,             \* len(strategy.triggers)
    \* Actuator
    action_list,          \* Actuator._action_list
    cur_actions,          \* Actuator._currents.actions
    cur_timestamp,        \* Actuator._currents.timestamp
    account_status_list,  \* Actuator._account_status_list
    backtest_finished,    \* Actuator.__backtest_finished
    \* markets
    market_status,        \* market -> timestamp of Market._market_status
    has_update,           \* market -> Market.has_update
    positions,            \* market -> an option position is held
    \* run()
    pc,                   \* position of run()
    row_id,               \* row_id of run()
    k,                    \* cursor of the trigger loop and of the update loop
    error,                \* the exception run() ended with
    \* what the strategy and the caller observe
    calls,                \* calls made in the current phase of run()
    ncalls,               \* counted callback -> number of invocations in this run
    notified,             \* actions passed to strategy.notify() in this run
    ticks_done,           \* timestamps whose tick has completed in this run
    last_query,           \* result of the last final_status/output/save_result
    runs,                 \* run() calls so far
    ops,                  \* market operations issued by the strategy in this run
    \* the option venue with its ledger (part 2)
    allow_negative_balance,  \* Broker.allow_negative_balance
    venue_data,           \* DeribitOptionMarket._data: the order-book data loaded
    ledger,               \* token -> balance of the broker
    status_timestamp,     \* DeribitOptionMarket._market_status.timestamp
    status_data,          \* _market_status.data: the order-book rows of that timestamp
    option_positions,     \* DeribitOptionMarket.positions, in insertion order
    last,                 \* the last operation on the venue: arguments, outcome, state before
    prior,                \* the buy that the last sell followed at once, if any
    venue_ops,            \* operations on the venue so far
    \* the vault venue (part 3)
    vault,                \* SqueethMarket.vault, in insertion order
    squeeth_status,       \* SqueethMarket._market_status.data: the row of the timestamp
    pool                  \* the positions of the paired liquidity pool

vars == <<markets, token_prices, assets, triggers, action_list, cur_actions,
          cur_timestamp, account_status_list, backtest_finished, market_status, has_update,
          positions, pc, row_id, k, error, calls, ncalls, notified, ticks_done, last_query,
          runs, ops, allow_negative_balance, venue_data, ledger, status_timestamp,
          status_data, option_positions, last, prior, venue_ops, vault, squeeth_status,
          pool>>

\* the variables of run() and of the markets it drives
actuator == <<markets, token_prices, assets, triggers, action_list, cur_actions,
              cur_timestamp, account_status_list, backtest_finished, market_status,
              has_update, positions, pc, row_id, k, error, calls, ncalls, notified,
              ticks_done, last_query, runs, ops>>

\* the variables of the option venue and its ledger
venue == <<allow_negative_balance, venue_data, ledger, status_timestamp, status_data,
           option_positions, last, prior, venue_ops>>

\* the variables of the vault venue
squeeth == <<vault, squeeth_status, pool>>

config == <<markets, token_prices, assets, triggers>>

Callbacks == {"initialize", "when", "do", "on_bar", "after_bar", "notify", "finalize"}

\* the callbacks run() counts: do() runs only in the step of its when()
Counted == Callbacks \ {"do"}

MarketIds == 1..Len(markets)

\* index_array of run(): the index of the first market's data
index_array == markets[1].index

NoQuery == [op |-> "none", result |-> "none"]


(***************************************************************************)
(* Helpers of the model.                                                   *)
(***************************************************************************)
Ev(op, arg, upd, t) == [op |-> op, arg |-> arg, upd |-> upd, t |-> t]

\* the instrument is a row of the order book at timestamp ts
Listed(ts) == ts <= LastListed

\* a loop that keeps reading the first row
TickTs_FirstRow == index_array[1]

\* timestamp of the row run() is processing
TickTs == index_array[row_id + 1]

(***************************************************************************)
(* Actuator._check_backtest: "ok" or the error it raises.                  *)
(***************************************************************************)
SameInterval(intervals, price_interval) == price_interval = intervals[1]

CheckBacktest(mk, tp, as) ==
    IF Len(mk) < 1 THEN "No market assigned"
    ELSE IF ~tp.isset THEN "token prices is not set"
    ELSE IF \E token \in as : token \notin tp.tokens THEN "Price has not set yet"
    ELSE LET data_length == [m \in 1..Len(mk) |-> Len(mk[m].index)]
             default_market_data == mk[1].index
             length == data_length[1]
             data_interval == [m \in 1..Len(mk) |-> mk[m].index[2] - mk[m].index[1]]
         IN  IF \E m \in 1..Len(mk) : data_length[m] # data_length[1]
                 THEN "data length among markets are not same"
             ELSE IF Len(tp.index) = 0 \/ Len(default_market_data) = 0 THEN "IndexError"
             ELSE IF \/ tp.index[1] > default_market_data[1]
                     \/ Last(tp.index) < Last(default_market_data)
                 THEN "Time range of price doesn't cover market data"
             ELSE IF length > 1
                 THEN IF \E m \in 1..Len(mk) : data_interval[m] # data_interval[1]
                          THEN "data interval among markets are not same"
                      ELSE IF ~SameInterval(data_interval, tp.index[2] - tp.index[1])
                          THEN "price list interval and data interval are not same"
                      ELSE "ok"
             ELSE "ok"

(***************************************************************************)
(* Actuator._record_action_list: the action gets the current timestamp and *)
(* goes to the action log and to the per-tick buffer.                      *)
(***************************************************************************)
ActionTimestamp(ct) == ct

NewAction(al, ct, kind) ==
    [id |-> Len(al) + 1, kind |-> kind, timestamp |-> ActionTimestamp(ct)]

RecordActionList(st, kind) ==
    LET action == NewAction(st.al, st.ct, kind)
    IN  [st EXCEPT !.al = Append(st.al, action), !.ca = Append(st.ca, action)]

\* the lists an operation records into, as one value
Lists == [al |-> action_list, ca |-> cur_actions, ct |-> cur_timestamp]

(***************************************************************************)
(* Market.set_market_status and Actuator.__set_row_to_markets.             *)
(***************************************************************************)
\* Market.set_market_status of the base class: the dirty flag is cleared
BaseSetMarketStatus(st, m) == [st EXCEPT !.hu[m] = FALSE]

\* the timestamp a market binds its status to
BoundTimestamp(ts) == ts

\* DeribitOptionMarket.set_market_status / SqueethMarket.set_market_status
SetMarketStatus(st, m, ts) ==
    LET st1 == BaseSetMarketStatus(st, m)
    IN  IF ts \notin Range(markets[m].index)
            THEN [st1 EXCEPT !.err = "KeyError"]
            ELSE [st1 EXCEPT !.ms[m] = BoundTimestamp(ts)]

\* a binding that skips the markets that are not dirty in every call
ShouldSet_DirtyOnly(update, dirty) == dirty

\* the markets a call of __set_row_to_markets binds
ShouldSet(update, dirty) == (~update) \/ (update /\ dirty)

RECURSIVE SetRow(_, _, _, _)
SetRow(m, ts, update, st) ==
    IF m > Len(markets) \/ st.err # "ok" THEN st
    ELSE IF ~ShouldSet(update, st.hu[m]) THEN SetRow(m + 1, ts, update, st)
    ELSE IF ts \notin Range(token_prices.index) THEN [st EXCEPT !.err = "KeyError"]
    ELSE SetRow(m + 1, ts, update,
                SetMarketStatus([st EXCEPT !.ev = Append(st.ev, Ev("set_market_status", m, update, ts))],
                                m, ts))

\* a binding that takes every market whatever the update argument says
SetRowToMarkets_Unconditional(ts, update, ev) ==
    SetRow(1, ts, FALSE, [ms |-> market_status, hu |-> has_update, ev |-> ev, err |-> "ok"])

SetRowToMarkets(ts, update, ev) ==
    SetRow(1, ts, update, [ms |-> market_status, hu |-> has_update, ev |-> ev, err |-> "ok"])

(***************************************************************************)
(* Actuator.reset                                                          *)
(***************************************************************************)
\* a reset that leaves the finished flag as it is
ResetFinished_Kept == backtest_finished

ResetFinished == FALSE

\* a reset that keeps the lists of the previous run
Reset_KeepsLists ==
    /\ cur_timestamp' = None
    /\ backtest_finished' = ResetFinished
    /\ UNCHANGED <<action_list, cur_actions, account_status_list>>

Reset ==
    /\ action_list' = << >>
    /\ cur_actions' = << >>
    /\ cur_timestamp' = None
    /\ account_status_list' = << >>
    /\ backtest_finished' = ResetFinished

\* the observations of a run start empty
ResetObservations ==
    /\ calls' = << >>
    /\ ncalls' = [c \in Counted |-> 0]
    /\ notified' = << >>
    /\ ticks_done' = << >>
    /\ last_query' = NoQuery
    /\ ops' = 0

Abort(err) ==
    /\ pc' = "aborted"
    /\ error' = err

(***************************************************************************)
(* What a strategy callback may do: nothing, one market operation (a buy   *)
(* on an option market; it succeeds, or fails and the strategy catches the *)
(* error), or raise (an error of an operation it does not catch, a failing *)
(* assertion).  next is the position of run() after the callback.         *)
(***************************************************************************)
\* write_func: the market is dirty from the call on
WriteFunc(hu, m) == [hu EXCEPT ![m] = TRUE]

\* DeribitOptionMarket.buy: _check_transaction raises for an instrument that
\* is not in the current order book; otherwise the position is created and
\* a BuyAction recorded.
BuyOk(m) == market_status[m] # None /\ Listed(market_status[m])

StrategyActs(next) ==
    \/ /\ pc' = next
       /\ UNCHANGED <<action_list, cur_actions, has_update, positions, ops, error>>
    \/ /\ Abort("callback")
       /\ UNCHANGED <<action_list, cur_actions, has_update, positions, ops>>
    \/ \E m \in MarketIds :
          /\ markets[m].kind = "deribit"
          /\ ops < MaxOps
          /\ ops' = ops + 1
          /\ has_update' = WriteFunc(has_update, m)
          /\ IF BuyOk(m)
                 THEN LET st == RecordActionList(Lists, "buy")
                      IN  /\ action_list' = st.al
                          /\ cur_actions' = st.ca
                          /\ positions' = [positions EXCEPT ![m] = TRUE]
                          /\ pc' = next
                          /\ UNCHANGED error
                 ELSE /\ UNCHANGED <<action_list, cur_actions, positions>>
                      /\ \/ pc' = next /\ UNCHANGED error
                         \/ Abort("DemeterError")

Called(cb) == ncalls' = [ncalls EXCEPT ![cb] = @ + 1]

(***************************************************************************)
(* Actuator.run, step by step.                                             *)
(***************************************************************************)
\* a loop body that notifies before it appends the account status
AfterStep_NotifyBeforeAppend(step) ==
    CASE step = "check" -> "bind_initial"
      [] step = "bind_initial" -> "initialize"
      [] step = "initialize" -> "loop_head"
      [] step = "tick_begin" -> "bar"
      [] step = "on_bar" -> "refresh"
      [] step = "refresh" -> "update"
      [] step = "after_bar" -> "notify"
      [] step = "notify" -> "append"
      [] step = "append" -> "clear"
      [] step = "clear" -> "loop_head"
      [] step = "loop_end" -> "finalize"
      [] step = "finalize" -> "set_finished"
      [] step = "set_finished" -> "done"

\* the statement order of run(): the position after each step
AfterStep(step) ==
    CASE step = "check" -> "bind_initial"
      [] step = "bind_initial" -> "initialize"
      [] step = "initialize" -> "loop_head"
      [] step = "tick_begin" -> "bar"
      [] step = "on_bar" -> "refresh"
      [] step = "refresh" -> "update"
      [] step = "after_bar" -> "append"
      [] step = "append" -> "notify"
      [] step = "notify" -> "clear"
      [] step = "clear" -> "loop_head"
      [] step = "loop_end" -> "finalize"
      [] step = "finalize" -> "set_finished"
      [] step = "set_finished" -> "done"

\* a loop that stops one row early
LoopDone_OneRowEarly(rid, n) == rid >= n - 1

\* for timestamp_index in index_array: the loop is over after the last row
LoopDone(rid, n) == rid >= n

Idle == pc \in {"idle", "done", "failed", "aborted"}

\* run(): reset(), then _check_backtest()
RunStart ==
    /\ Idle
    /\ runs < MaxRuns
    /\ runs' = runs + 1
    /\ Reset
    /\ ResetObservations
    /\ row_id' = 0
    /\ k' = 1
    /\ LET res == CheckBacktest(markets, token_prices, assets)
       IN  IF res = "ok" THEN pc' = AfterStep("check") /\ error' = "ok"
                         ELSE pc' = "failed" /\ error' = res
    /\ UNCHANGED <<config, market_status, has_update, positions>>
    /\ UNCHANGED <<venue, squeeth>>

\* __set_row_to_markets(index_array[0], False) and the initial account status
BindInitial ==
    /\ pc = "bind_initial"
    /\ LET st == SetRowToMarkets(index_array[1], FALSE, calls)
       IN  /\ market_status' = st.ms
           /\ has_update' = st.hu
           /\ calls' = st.ev
           /\ IF st.err = "ok" THEN pc' = AfterStep("bind_initial") /\ UNCHANGED error
                               ELSE Abort(st.err)
    /\ last_query' = NoQuery
    /\ UNCHANGED <<config, action_list, cur_actions, cur_timestamp, account_status_list,
                   backtest_finished, positions, row_id, k, ncalls, notified, ticks_done,
                   runs, ops>>
    /\ UNCHANGED <<venue, squeeth>>

\* init_strategy(): strategy.initialize()
Initialize ==
    /\ pc = "initialize"
    /\ Called("initialize")
    /\ calls' = Append(calls, Ev("initialize", 0, FALSE, None))
    /\ StrategyActs(AfterStep("initialize"))
    /\ row_id' = 0
    /\ last_query' = NoQuery
    /\ UNCHANGED <<config, cur_timestamp, account_status_list, backtest_finished,
                   market_status, k, notified, ticks_done, runs>>
    /\ UNCHANGED <<venue, squeeth>>

\* head of the loop body: the price row, __set_row_to_markets(t, False),
\* _currents.timestamp = t
TickBegin ==
    /\ pc = "loop_head"
    /\ ~LoopDone(row_id, Len(index_array))
    /\ IF TickTs \notin Range(token_prices.index)
           THEN /\ Abort("KeyError")
                /\ calls' = << >>
                /\ UNCHANGED <<market_status, has_update, cur_timestamp, k>>
           ELSE LET st == SetRowToMarkets(TickTs, FALSE, << >>)
                IN  /\ market_status' = st.ms
                    /\ has_update' = st.hu
                    /\ calls' = st.ev
                    /\ IF st.err = "ok"
                           THEN /\ cur_timestamp' = TickTs
                                /\ pc' = AfterStep("tick_begin")
                                /\ k' = 1
                                /\ UNCHANGED error
                           ELSE /\ Abort(st.err)
                                /\ UNCHANGED <<cur_timestamp, k>>
    /\ last_query' = NoQuery
    /\ UNCHANGED <<config, action_list, cur_actions, account_status_list, backtest_finished,
                   positions, row_id, ncalls, notified, ticks_done, runs, ops>>
    /\ UNCHANGED <<venue, squeeth>>

\* a loop that runs do() whatever when() returned
FiresDo_Always(fired) == TRUE

\* one trigger of strategy.triggers: when(row_data), and do(row_data) if it fired
FiresDo(fired) == fired

Trigger ==
    /\ pc = "bar"
    /\ k <= triggers
    /\ \E fired \in BOOLEAN :
          IF FiresDo(fired)
              THEN /\ Called("when")
                   /\ calls' = calls \o <<Ev("when", k, fired, cur_timestamp),
                                          Ev("do", k, FALSE, cur_timestamp)>>
                   /\ StrategyActs("bar")
              ELSE /\ Called("when")
                   /\ calls' = Append(calls, Ev("when", k, fired, cur_timestamp))
                   /\ UNCHANGED <<action_list, cur_actions, has_update, positions, ops, pc, error>>
    /\ k' = k + 1
    /\ last_query' = NoQuery
    /\ UNCHANGED <<config, cur_timestamp, account_status_list, backtest_finished,
                   market_status, row_id, notified, ticks_done, runs>>
    /\ UNCHANGED <<venue, squeeth>>

\* strategy.on_bar(row_data)
OnBar ==
    /\ pc = "bar"
    /\ k > triggers
    /\ Called("on_bar")
    /\ calls' = Append(calls, Ev("on_bar", 0, FALSE, cur_timestamp))
    /\ StrategyActs(AfterStep("on_bar"))
    /\ last_query' = NoQuery
    /\ UNCHANGED <<config, cur_timestamp, account_status_list, backtest_finished,
                   market_status, row_id, k, notified, ticks_done, runs>>
    /\ UNCHANGED <<venue, squeeth>>

\* __set_row_to_markets(t, True)
Refresh ==
    /\ pc = "refresh"
    /\ LET st == SetRowToMarkets(TickTs, TRUE, calls)
       IN  /\ market_status' = st.ms
           /\ has_update' = st.hu
           /\ calls' = st.ev
           /\ IF st.err = "ok" THEN pc' = AfterStep("refresh") /\ k' = 1 /\ UNCHANGED error
                               ELSE Abort(st.err) /\ UNCHANGED k
    /\ last_query' = NoQuery
    /\ UNCHANGED <<config, action_list, cur_actions, cur_timestamp, account_status_list,
                   backtest_finished, positions, row_id, ncalls, notified, ticks_done,
                   runs, ops>>
    /\ UNCHANGED <<venue, squeeth>>

\* DeribitOptionMarket.update -> check_option_exercise (a write_func): an
\* expired position is settled (a DeliverAction if it is delivered, then an
\* ExpiredAction) and removed; it raises if the instrument of an expired
\* position is not in the current order book.  SqueethMarket.update: pass.
Expired(ts, expiry_time) == ts >= expiry_time

SettleActions(st, delivered) ==
    LET st1 == IF delivered THEN RecordActionList(st, "deliver") ELSE st
    IN  RecordActionList(st1, "expire")

UpdateMarket ==
    /\ pc = "update"
    /\ k <= Len(markets)
    /\ calls' = Append(calls, Ev("update", k, FALSE, cur_timestamp))
    /\ IF markets[k].kind = "deribit"
           THEN /\ has_update' = WriteFunc(has_update, k)
                /\ IF positions[k] /\ Expired(market_status[k], InstrumentExpiry)
                       THEN IF ~Listed(market_status[k])
                                THEN /\ Abort("DemeterError")
                                     /\ UNCHANGED <<action_list, cur_actions, positions>>
                                ELSE \E delivered \in BOOLEAN :
                                        LET st == SettleActions(Lists, delivered)
                                        IN  /\ action_list' = st.al
                                            /\ cur_actions' = st.ca
                                            /\ positions' = [positions EXCEPT ![k] = FALSE]
                                            /\ UNCHANGED <<pc, error>>
                       ELSE UNCHANGED <<action_list, cur_actions, positions, pc, error>>
           ELSE UNCHANGED <<action_list, cur_actions, positions, has_update, pc, error>>
    /\ k' = k + 1
    /\ last_query' = NoQuery
    /\ UNCHANGED <<config, cur_timestamp, account_status_list, backtest_finished,
                   market_status, row_id, ncalls, notified, ticks_done, runs, ops>>
    /\ UNCHANGED <<venue, squeeth>>

\* strategy.after_bar(row_data)
AfterBar ==
    /\ pc = "update"
    /\ k > Len(markets)
    /\ Called("after_bar")
    /\ calls' = Append(calls, Ev("after_bar", 0, FALSE, cur_timestamp))
    /\ StrategyActs(AfterStep("after_bar"))
    /\ last_query' = NoQuery
    /\ UNCHANGED <<config, cur_timestamp, account_status_list, backtest_finished,
                   market_status, row_id, k, notified, ticks_done, runs>>
    /\ UNCHANGED <<venue, squeeth>>

\* Broker.get_account_status(price, timestamp): the status of that timestamp
GetAccountStatus(ts) == [timestamp |-> ts]

\* _account_status_list.append(get_account_status(current_price, timestamp_index))
AppendStatus ==
    /\ pc = "append"
    /\ account_status_list' = Append(account_status_list, GetAccountStatus(TickTs))
    /\ calls' = Append(calls, Ev("append", 0, FALSE, TickTs))
    /\ pc' = AfterStep("append")
    /\ last_query' = NoQuery
    /\ UNCHANGED <<config, action_list, cur_actions, cur_timestamp, backtest_finished,
                   market_status, has_update, positions, row_id, k, error, ncalls, notified,
                   ticks_done, runs, ops>>
    /\ UNCHANGED <<venue, squeeth>>

\* notify(strategy, _currents.actions): strategy.notify(action) for each
NotifiedBy(actions) == actions

Notify ==
    /\ pc = "notify"
    /\ notified' = notified \o NotifiedBy(cur_actions)
    /\ ncalls' = [ncalls EXCEPT !["notify"] = @ + Len(NotifiedBy(cur_actions))]
    /\ calls' = Append(calls, Ev("notify", Len(NotifiedBy(cur_actions)), FALSE, cur_timestamp))
    /\ pc' = AfterStep("notify")
    /\ last_query' = NoQuery
    /\ UNCHANGED <<config, action_list, cur_actions, cur_timestamp, account_status_list,
                   backtest_finished, market_status, has_update, positions, row_id, k, error,
                   ticks_done, runs, ops>>
    /\ UNCHANGED <<venue, squeeth>>

\* _currents.actions = [] ; row_id += 1
ClearedBuffer(ca) == << >>

Clear ==
    /\ pc = "clear"
    /\ cur_actions' = ClearedBuffer(cur_actions)
    /\ calls' = Append(calls, Ev("clear", 0, FALSE, cur_timestamp))
    /\ ticks_done' = Append(ticks_done, TickTs)
    /\ row_id' = row_id + 1
    /\ pc' = AfterStep("clear")
    /\ last_query' = NoQuery
    /\ UNCHANGED <<config, action_list, cur_timestamp, account_status_list,
                   backtest_finished, market_status, has_update, positions, k, error, ncalls,
                   notified, runs, ops>>
    /\ UNCHANGED <<venue, squeeth>>

\* the loop has processed index_array
LoopEnd ==
    /\ pc = "loop_head"
    /\ LoopDone(row_id, Len(index_array))
    /\ pc' = AfterStep("loop_end")
    /\ calls' = << >>
    /\ last_query' = NoQuery
    /\ UNCHANGED <<config, action_list, cur_actions, cur_timestamp, account_status_list,
                   backtest_finished, market_status, has_update, positions, row_id, k, error,
                   ncalls, notified, ticks_done, runs, ops>>
    /\ UNCHANGED <<venue, squeeth>>

\* strategy.finalize()
Finalize ==
    /\ pc = "finalize"
    /\ Called("finalize")
    /\ calls' = Append(calls, Ev("finalize", 0, FALSE, cur_timestamp))
    /\ StrategyActs(AfterStep("finalize"))
    /\ last_query' = NoQuery
    /\ UNCHANGED <<config, cur_timestamp, account_status_list, backtest_finished,
                   market_status, row_id, k, notified, ticks_done, runs>>
    /\ UNCHANGED <<venue, squeeth>>

\* self.__backtest_finished = True
SetFinished ==
    /\ pc = "set_finished"
    /\ backtest_finished' = TRUE
    /\ pc' = AfterStep("set_finished")
    /\ last_query' = NoQuery
    /\ UNCHANGED <<config, action_list, cur_actions, cur_timestamp, account_status_list,
                   market_status, has_update, positions, row_id, k, error, calls, ncalls,
                   notified, ticks_done, runs, ops>>
    /\ UNCHANGED <<venue, squeeth>>

(***************************************************************************)
(* final_status, output(), save_result(): an error unless the flag is set. *)
(***************************************************************************)
RequireFinished(finished) == IF finished THEN "ok" ELSE "error"

QueryOps == {"final_status", "output", "save_result"}

\* the caller asks between runs; initialize() or finalize() asks during a run
QueryPoints == {"idle", "done", "failed", "aborted", "initialize", "set_finished"}

Query ==
    /\ pc \in QueryPoints
    /\ last_query = NoQuery
    /\ \E op \in QueryOps :
          last_query' = [op |-> op, result |-> RequireFinished(backtest_finished)]
    /\ UNCHANGED <<config, action_list, cur_actions, cur_timestamp, account_status_list,
                   backtest_finished, market_status, has_update, positions, pc, row_id, k,
                   error, calls, ncalls, notified, ticks_done, runs, ops>>
    /\ UNCHANGED <<venue, squeeth>>

\* set_assets(): a token gets a balance between two runs
SetAssets ==
    /\ Idle
    /\ runs < MaxRuns
    /\ \E token \in Tokens \ assets : assets' = assets \cup {token}
    /\ last_query' = NoQuery
    /\ UNCHANGED <<markets, token_prices, triggers, action_list, cur_actions,
                   cur_timestamp, account_status_list, backtest_finished, market_status,
                   has_update, positions, pc, row_id, k, error, calls, ncalls, notified,
                   ticks_done, runs, ops>>
    /\ UNCHANGED <<venue, squeeth>>

(***************************************************************************)
(* The option venue is not operated on while run() is modelled step by     *)
(* step: its state stays as constructed.                                   *)
(***************************************************************************)
\* no operation has been made on the venue
NoOperation ==
    [op |-> "none", instrument |-> "none", requested |-> 0, target |-> None, err |-> "ok",
     amount |-> 0, orders |-> << >>, total_premium |-> 0, fee |-> 0, actions |-> << >>,
     pre |-> [ledger |-> << >>, data |-> << >>, positions |-> << >>]]

\* DeribitOptionMarket.__init__ and a Broker without assets
VenueAtRest ==
    /\ allow_negative_balance = FALSE
    /\ venue_data = << >>
    /\ ledger = [t \in Tokens |-> 0]
    /\ status_timestamp = None
    /\ status_data = << >>
    /\ option_positions = << >>
    /\ last = NoOperation
    /\ prior = NoOperation
    /\ venue_ops = 0

\* SqueethMarket.__init__: no vault, no status bound
SqueethAtRest ==
    /\ vault = << >>
    /\ squeeth_status = << >>
    /\ pool = << >>

(***************************************************************************)
(* The specification.                                                      *)
(***************************************************************************)
Init ==
    /\ markets \in MarketChoices
    /\ token_prices \in
           {[isset |-> FALSE, index |-> << >>, tokens |-> {}]}
               \cup {[isset |-> TRUE, index |-> i, tokens |-> t] :
                        i \in PriceIndexChoices, t \in {{"eth"}}}
    /\ assets \in {{"eth"}, {"eth", "usdc"}}
    /\ triggers \in {0, MaxTriggers}
    /\ action_list = << >>
    /\ cur_actions = << >>
    /\ cur_timestamp = None
    /\ account_status_list = << >>
    /\ backtest_finished = FALSE
    /\ market_status = [m \in MarketIds |-> None]
    /\ has_update = [m \in MarketIds |-> FALSE]
    /\ positions = [m \in MarketIds |-> FALSE]
    /\ pc = "idle"
    /\ row_id = 0
    /\ k = 1
    /\ error = "ok"
    /\ calls = << >>
    /\ ncalls = [c \in Counted |-> 0]
    /\ notified = << >>
    /\ ticks_done = << >>
    /\ last_query = NoQuery
    /\ runs = 0
    /\ ops = 0
    /\ VenueAtRest
    /\ SqueethAtRest

Next ==
    \/ RunStart
    \/ BindInitial
    \/ Initialize
    \/ TickBegin
    \/ Trigger
    \/ OnBar
    \/ Refresh
    \/ UpdateMarket
    \/ AfterBar
    \/ AppendStatus
    \/ Notify
    \/ Clear
    \/ LoopEnd
    \/ Finalize
    \/ SetFinished
    \/ Query
    \/ SetAssets

Spec == Init /\ [][Next]_vars


(***************************************************************************)
(* Properties of the Actuator.                                             *)
(***************************************************************************)
StrictlyIncreasing(s) == \A i, j \in 1..Len(s) : i < j => s[i] < s[j]

StatusTimestamps == [i \in 1..Len(account_status_list) |-> account_status_list[i].timestamp]

\* positions of run() between two ticks and after the loop
BetweenTicks == {"loop_head", "finalize", "set_finished", "done"}

\* C1: the account status list gets one entry per processed timestamp: it
\* has as many entries as ticks have completed (one more between the append
\* and the end of the tick), entry i carries row i of the data index, the
\* timestamps are strictly increasing, and after a completed run the list is
\* as long as the index.
C1_AccountStatusFollowsIndex ==
    /\ Len(account_status_list) \in {row_id, row_id + 1}
    /\ Len(account_status_list) = Len(ticks_done) + (IF pc \in {"notify", "clear"} THEN 1 ELSE 0)
    /\ pc \in BetweenTicks => Len(account_status_list) = row_id
    /\ \A i \in 1..Len(account_status_list) : account_status_list[i].timestamp = index_array[i]
    /\ StrictlyIncreasing(StatusTimestamps)
    /\ pc = "done" => StatusTimestamps = index_array

C1_Witness ==
    /\ pc = "done"
    /\ Len(account_status_list) >= 3
    /\ Len(action_list) >= 1

\* C2: after a run that failed in _check_backtest no strategy callback has
\* been invoked (none is counted, the trace of calls is empty) and the
\* action log, the per-tick buffer and the account status list are empty.
C2_FailedValidationLeavesNothing ==
    pc = "failed" =>
        /\ \A c \in Counted : ncalls[c] = 0
        /\ calls = << >>
        /\ action_list = << >>
        /\ cur_actions = << >>
        /\ account_status_list = << >>
        /\ notified = << >>

\* a second run fails validation for a token without price
C2_Witness ==
    /\ pc = "failed"
    /\ runs = 2
    /\ error = "Price has not set yet"
    /\ \E m \in MarketIds : market_status[m] # None


\* C3 (as claimed): an operation-level error raised inside a tick, by an
\* operation a trigger or on_bar or after_bar issued or by a market's
\* update(), never ends the run part-way.
C3_TickErrorNeverAbortsRun ==
    ~ /\ pc = "aborted"
      /\ error = "DemeterError"
      /\ calls # << >>
      /\ Last(calls).op \in {"do", "on_bar", "update", "after_bar"}

(***************************************************************************)
(* The calls of one tick, read from the trace of the current phase.        *)
(***************************************************************************)
\* the step of the loop body a call belongs to
Stage(e) ==
    CASE e.op = "set_market_status" -> IF e.upd THEN 4 ELSE 1
      [] e.op \in {"when", "do"} -> 2
      [] e.op = "on_bar" -> 3
      [] e.op = "update" -> 5
      [] e.op = "after_bar" -> 6
      [] e.op = "append" -> 7
      [] e.op = "notify" -> 8
      [] e.op = "clear" -> 9
      [] OTHER -> 0

CallsOfStage(S) == SelectSeq(calls, LAMBDA e : Stage(e) = S)

Count(S) == Len(CallsOfStage(S))

ArgsOf(S) == LET sel == CallsOfStage(S) IN [i \in 1..Len(sel) |-> sel[i].arg]

\* a is 1, 2, ..., Len(a) with Len(a) <= n
IsPrefixOfIds(a, n) == Len(a) <= n /\ \A i \in 1..Len(a) : a[i] = i

\* the trace is the trace of a tick (or of the binding before initialize)
TickTrace == calls # << >> /\ \A i \in 1..Len(calls) : Stage(calls[i]) > 0

\* C4: in a tick the steps happen in the order set_market_status on every
\* market, triggers, on_bar, set_market_status on dirty markets, update() on
\* every market in registration order, after_bar, append of the account
\* status, notification, clearing of the buffer; no step happens twice, none
\* is skipped, all belong to the same timestamp, and the tick is complete
\* when the loop returns to its head.
C4_TickStepOrder ==
    TickTrace =>
        LET st == [i \in 1..Len(calls) |-> Stage(calls[i])]
            cnt == [S \in 1..9 |-> Cardinality({i \in 1..Len(calls) : st[i] = S})]
        IN  /\ \A i \in 1..(Len(calls) - 1) : st[i] <= st[i + 1]
            /\ \A S \in {3, 6, 7, 8, 9} : cnt[S] <= 1
            /\ IsPrefixOfIds(ArgsOf(1), Len(markets))
            /\ (\E S \in 2..9 : cnt[S] > 0) => cnt[1] = Len(markets)
            /\ StrictlyIncreasing(ArgsOf(4))
            /\ IsPrefixOfIds(ArgsOf(5), Len(markets))
            /\ cnt[5] > 0 => cnt[3] = 1
            /\ cnt[6] = 1 => cnt[5] = Len(markets)
            /\ cnt[7] = 1 => cnt[6] = 1
            /\ cnt[8] = 1 => cnt[7] = 1
            /\ cnt[9] = 1 => cnt[8] = 1
            /\ \A i \in 1..Len(calls) : calls[i].t = calls[1].t
            /\ (pc = "loop_head" /\ row_id > 0) => (cnt[9] = 1 /\ Last(calls).op = "clear")

\* a complete tick of two markets in which the first was refreshed and
\* actions were notified
C4_Witness ==
    /\ pc = "loop_head"
    /\ row_id >= 2
    /\ Len(markets) = 2
    /\ Count(4) = 1
    /\ Count(2) > triggers
    /\ \E i \in 1..Len(calls) : calls[i].op = "notify" /\ calls[i].arg >= 1

\* C5: the triggers are evaluated in registration order, do() of a trigger
\* is called if and only if its when() returned true, right after it, and
\* on_bar is called after every trigger has been evaluated.
C5_TriggersBeforeOnBar ==
    LET whens == SelectSeq(calls, LAMBDA e : e.op = "when")
    IN  /\ IsPrefixOfIds([i \in 1..Len(whens) |-> whens[i].arg], triggers)
        /\ \A i \in 1..Len(calls) :
              calls[i].op = "do" =>
                  /\ i > 1
                  /\ calls[i - 1].op = "when"
                  /\ calls[i - 1].arg = calls[i].arg
                  /\ calls[i - 1].upd
        /\ \A i \in 1..Len(calls) :
              (calls[i].op = "when" /\ calls[i].upd) =>
                  /\ i < Len(calls)
                  /\ calls[i + 1].op = "do"
                  /\ calls[i + 1].arg = calls[i].arg
        /\ \A i, j \in 1..Len(calls) :
              (calls[i].op = "on_bar" /\ calls[j].op \in {"when", "do"}) => j < i
        /\ (\E i \in 1..Len(calls) : calls[i].op = "on_bar") => Len(whens) = triggers

\* the first trigger did not fire, the second did, then on_bar ran
C5_Witness ==
    /\ pc = "refresh"
    /\ \E i \in 1..Len(calls) :
          /\ i + 3 <= Len(calls)
          /\ calls[i].op = "when" /\ calls[i].arg = 1 /\ ~calls[i].upd
          /\ calls[i + 1].op = "when" /\ calls[i + 1].arg = 2 /\ calls[i + 1].upd
          /\ calls[i + 2].op = "do" /\ calls[i + 2].arg = 2
          /\ calls[i + 3].op = "on_bar"
    /\ Len(cur_actions) >= 1

\* C6 (as claimed): every recorded action is notified exactly once, in
\* recording order, at the end of its tick: between two ticks and after the
\* run the notified actions are the action log and the buffer is empty.
C6_EveryActionNotifiedOnce ==
    ((pc = "loop_head" /\ row_id > 0) \/ pc = "done") =>
        /\ notified = action_list
        /\ cur_actions = << >>

\* C7 (as claimed): every action of the log carries a defined timestamp
\* and the timestamps do not decrease along the log.
C7_ActionTimestampsDefined ==
    /\ \A i \in 1..Len(action_list) : action_list[i].timestamp # None
    /\ \A i, j \in 1..Len(action_list) :
          i < j => action_list[i].timestamp <= action_list[j].timestamp

\* C8: while the callbacks of a tick and the markets' update() run, the
\* status of every market is bound to the timestamp of the tick, which is
\* the timestamp stamped on actions.
C8_StatusBoundToTick ==
    pc \in {"bar", "refresh", "update", "append"} =>
        /\ cur_timestamp = TickTs
        /\ \A m \in MarketIds : market_status[m] = cur_timestamp

\* second tick of two markets, the vault market was never dirty
C8_Witness ==
    /\ pc = "update"
    /\ k = 2
    /\ Len(markets) = 2
    /\ row_id >= 1
    /\ Count(4) = 1
    /\ Len(cur_actions) >= 1

\* C9: final_status, output() and save_result() succeed exactly when the
\* last run() has run to completion; the finished flag is set only after
\* every timestamp was processed and finalize() returned, and it is not set
\* while a later run is under way or after it failed.
C9_FinishedOnlyAfterCompleteRun ==
    /\ last_query # NoQuery => (last_query.result = "ok" <=> pc = "done")
    /\ backtest_finished <=> pc = "done"
    /\ backtest_finished =>
          /\ ticks_done = index_array
          /\ ncalls["finalize"] = 1

\* a query fails after a second run failed validation
C9_Witness ==
    /\ pc = "failed"
    /\ runs = 2
    /\ last_query = [op |-> "final_status", result |-> "error"]
    /\ \E m \in MarketIds : market_status[m] # None

\* C10: initialize() is called once, after the status was bound to the
\* first timestamp and before the first tick; finalize() is called once,
\* after the last tick; on_bar and after_bar are called once per timestamp.
C10_CallbackCounts ==
    /\ ncalls["initialize"] <= 1 /\ ncalls["finalize"] <= 1
    /\ ncalls["initialize"] = 0 =>
          \A c \in Counted : ncalls[c] = 0
    /\ (pc = "loop_head" /\ row_id = 0) =>
          /\ Len(calls) = Len(markets) + 1
          /\ \A m \in MarketIds : calls[m] = Ev("set_market_status", m, FALSE, index_array[1])
          /\ Last(calls).op = "initialize"
          /\ ticks_done = << >>
    /\ ncalls["finalize"] = 1 =>
          /\ ticks_done = index_array
          /\ ncalls["on_bar"] = Len(index_array)
          /\ ncalls["after_bar"] = Len(index_array)
    /\ pc \in BetweenTicks =>
          /\ ncalls["on_bar"] = Len(ticks_done)
          /\ ncalls["after_bar"] = Len(ticks_done)
    /\ pc = "done" =>
          /\ ncalls["initialize"] = 1
          /\ ncalls["finalize"] = 1
          /\ ncalls["on_bar"] = Len(index_array)
          /\ ncalls["after_bar"] = Len(index_array)

C10_Witness ==
    /\ pc = "done"
    /\ ncalls["on_bar"] >= 3
    /\ Len(notified) >= 1

\* an index is strictly increasing, without gap, at one interval
UniformlySpaced(ix) ==
    \A i \in 1..(Len(ix) - 1) : ix[i + 1] > ix[i] /\ ix[i + 1] - ix[i] = ix[2] - ix[1]

\* the timing requirements on the inputs of a run
TimingRequirementsMet ==
    /\ UniformlySpaced(token_prices.index)
    /\ \A m \in MarketIds :
          /\ UniformlySpaced(markets[m].index)
          /\ Len(markets[m].index) = Len(markets[1].index)
          /\ Len(markets[m].index) = Len(token_prices.index)
          /\ Len(markets[m].index) > 1 =>
                /\ markets[m].index[2] - markets[m].index[1] = markets[1].index[2] - markets[1].index[1]
                /\ markets[m].index[2] - markets[m].index[1] = token_prices.index[2] - token_prices.index[1]
          /\ Len(markets[m].index) > 0 =>
                /\ Len(token_prices.index) > 0
                /\ token_prices.index[1] <= markets[m].index[1]
                /\ Last(token_prices.index) >= Last(markets[m].index)

\* C11 (as claimed): whenever the inputs violate the timing requirements
\* (a market index with a gap, differing row counts or intervals among the
\* markets and the price series, a price series that does not span a
\* market's data), run() fails in validation: it never gets past
\* _check_backtest, so it is never at a later position of run().
C11_TimingViolationsAbort ==
    (Len(markets) >= 1 /\ token_prices.isset /\ ~TimingRequirementsMet) =>
        pc \in {"idle", "failed"}

\* C12: run() starts from a reset state.  Right after the start of a run the
\* action log, the per-tick buffer and the account status list are empty and
\* the finished flag is false, whatever an earlier run left; from then on the
\* action log holds exactly the actions notified or buffered in this run,
\* the account status list one entry per tick of this run, and the flag is
\* set only by the completion of this run.
C12_RunStartsFromResetState ==
    /\ pc \in {"bind_initial", "initialize", "failed"} =>
          /\ action_list = << >>
          /\ cur_actions = << >>
          /\ account_status_list = << >>
          /\ ~backtest_finished
    /\ action_list = (IF pc = "clear" THEN notified ELSE notified \o cur_actions)
    /\ Len(account_status_list) = Len(ticks_done) + (IF pc \in {"notify", "clear"} THEN 1 ELSE 0)
    /\ backtest_finished => pc = "done"

\* a completed second run that issued no operation: its log holds only the
\* settlement of the position the first run had bought
C12_Witness ==
    /\ runs = 2
    /\ pc = "done"
    /\ ops = 0
    /\ Len(action_list) >= 1
    /\ \A i \in 1..Len(action_list) : action_list[i].kind # "buy"
    /\ Len(account_status_list) = MaxLen


(***************************************************************************)
(* Part 2: DeribitOptionMarket (src/demeter/deribit/market.py) and the     *)
(* ledger of the broker it debits and credits.                             *)
(*                                                                         *)
(* Money is counted in units of the fee precision (10^min_fee_decimal of   *)
(* the settlement token), option amounts in units of the trade precision   *)
(* (10^min_trade_decimal); a requested amount is given in quarters of that *)
(* unit, so that its rounding is visible.  Decimal arithmetic is taken as  *)
(* exact: quotients are fractions [num, den].                              *)
(***************************************************************************)
\* trades and ledger operations in one behaviour
MaxVenueOps == 2

\* 10^-min_fee_decimal of TOKEN_CONFIGS[ETH]
MoneyScale == 1000000

\* a requested amount is a number of quarters of the trade unit
AmountScale == 4

\* TOKEN_CONFIGS[ETH].trade_fee_rate = 0.0003
TradeFeeRate == [num |-> 3, den |-> 10000]

\* TOKEN_CONFIGS[ETH].delivery_fee_rate = 0.00015
DeliveryFeeRate == [num |-> 15, den |-> 100000]

\* DeribitOptionMarket.MAX_FEE_RATE = 0.125
MAX_FEE_RATE == [num |-> 125, den |-> 1000]

\* the tolerance of _find_available_orders: error = 0.001
BandError == [num |-> 1, den |-> 1000]

\* the settlement token of the venue
VenueToken == "eth"

RECURSIVE Gcd(_, _)
Gcd(a, b) == IF b = 0 THEN a ELSE Gcd(b, a % b)

\* the fraction num/den in lowest terms (den > 0)
Frac(num, den) ==
    LET g == Gcd(IF num < 0 THEN -num ELSE num, den)
    IN  IF num = 0 THEN [num |-> 0, den |-> 1] ELSE [num |-> num \div g, den |-> den \div g]

FracLeq(x, y) == x.num * y.den <= y.num * x.den

FracMin(x, y) == IF FracLeq(x, y) THEN x ELSE y

\* round_decimal: the nearest multiple of the precision, a tie goes to the
\* even one (the default rounding of Decimal.quantize)
RoundDecimal(x) ==
    LET q == x.num \div x.den
        r == x.num % x.den
    IN  IF 2 * r < x.den THEN q
        ELSE IF 2 * r > x.den THEN q + 1
        ELSE IF q % 2 = 0 THEN q ELSE q + 1

\* Order.get_average_price: the volume-weighted price of a list of orders,
\* each [price (a fraction), amount]
RECURSIVE SumValue(_)
SumValue(orders) ==
    IF orders = << >> THEN [num |-> 0, den |-> 1]
    ELSE LET o == Head(orders)
             rest == SumValue(Tail(orders))
         IN  Frac(o.price.num * o.amount * rest.den + rest.num * o.price.den,
                  o.price.den * rest.den)

RECURSIVE SumAmount(_)
SumAmount(orders) ==
    IF orders = << >> THEN 0 ELSE Head(orders).amount + SumAmount(Tail(orders))

GetAveragePrice(orders) ==
    LET v == SumValue(orders)
    IN  Frac(v.num, v.den * SumAmount(orders))

\* Order(price, amount)
Order(price, amount) == [price |-> price, amount |-> amount]

\* an integer price as a fraction
Whole(n) == [num |-> n, den |-> 1]

\* sum([Decimal(t.amount) * Decimal(t.price) for t in order_list]): the
\* prices of matched orders are book prices, whole numbers of money units
RECURSIVE TotalPremium(_)
TotalPremium(order_list) ==
    IF order_list = << >> THEN 0
    ELSE Head(order_list).amount * Head(order_list).price.num + TotalPremium(Tail(order_list))

\* the fee of a rate on an amount, capped by MAX_FEE_RATE of the premium,
\* rounded to the fee precision
CappedFee(rate, amount, total_premium) ==
    RoundDecimal(FracMin(Frac(rate.num * amount * MoneyScale, rate.den),
                         Frac(MAX_FEE_RATE.num * total_premium, MAX_FEE_RATE.den)))

\* a trade fee without the cap of MAX_FEE_RATE of the premium
GetTradeFee_Uncapped(amount, total_premium) ==
    RoundDecimal(Frac(TradeFeeRate.num * amount * MoneyScale, TradeFeeRate.den))

\* DeribitOptionMarket.get_trade_fee
GetTradeFee(amount, total_premium) == CappedFee(TradeFeeRate, amount, total_premium)

\* DeribitOptionMarket.get_deliver_fee
GetDeliverFee(amount, total_premium) == CappedFee(DeliveryFeeRate, amount, total_premium)

(***************************************************************************)
(* The order-book data.  A row of the data holds, for every instrument     *)
(* listed at its timestamp, the asks, the bids (lists of levels [price,    *)
(* amount]) and the mark price, and the price of the underlying.           *)
(***************************************************************************)
\* the instruments: a call that expires at InstrumentExpiry and a put that
\* expires one row later, both struck at StrikePrice
StrikePrice == 20000

InstrumentNames == {"ETH-C", "ETH-P"}

InstrumentOf(name) ==
    IF name = "ETH-C"
        THEN [type |-> "call", strike_price |-> StrikePrice, expiry_time |-> InstrumentExpiry]
        ELSE [type |-> "put", strike_price |-> StrikePrice, expiry_time |-> InstrumentExpiry + 1]

\* an instrument is a row of the order book up to its expiry
ListedAt(ts) == {name \in InstrumentNames : ts <= InstrumentOf(name).expiry_time}

Level(price, amount) == [price |-> price, amount |-> amount]

\* order books of the data: a dear one, and a cheap one whose first ask is
\* used up
BookChoices ==
    {[asks |-> <<Level(4000, 1), Level(4004, 2)>>,
      bids |-> <<Level(3996, 2), Level(3990, 1)>>, mark_price |-> Frac(8001, 2)],
     [asks |-> <<Level(1000, 0), Level(1001, 3)>>,
      bids |-> <<Level(999, 3)>>, mark_price |-> Whole(1000)]}


\* an order book as the data file may hold it: load_data takes the lists as
\* they are, and here one price appears in two levels
RepeatedBook ==
    [asks |-> <<Level(4000, 1), Level(4004, 1), Level(4000, 2)>>,
     bids |-> <<Level(3996, 2)>>, mark_price |-> Frac(8001, 2)]

\* prices of the underlying from the first expiry on: below, at, just above
\* and above the strike
UnderlyingChoices == {StrikePrice - 10, StrikePrice, StrikePrice + 3, StrikePrice + 4}

\* the data a venue may be loaded with: every row holds the same book for
\* each listed instrument; the underlying is at the strike before the first
\* expiry and at one price from then on
DataChoices ==
    {[book |-> b, underlying_price |-> u] : b \in BookChoices, u \in UnderlyingChoices}
        \cup {[book |-> RepeatedBook, underlying_price |-> StrikePrice]}

\* self._data.loc[timestamp]
RowAt(data, ts) ==
    [underlying_price |-> IF ts < InstrumentExpiry THEN StrikePrice ELSE data.underlying_price,
     book |-> [name \in ListedAt(ts) |-> data.book]]

\* what a caller may ask for: amounts in quarters of the trade unit (a half,
\* one and a quarter, two, four), no target price or one of two
RequestedChoices == {2, 5, 8, 16}

TargetChoices == {None, 4002, 3994}

\* trades <<instrument, requested amount, target price>>
TradeChoices ==
    {<<"ETH-C", requested, None>> : requested \in RequestedChoices}
        \cup {<<"ETH-C", requested, target>> :
                  requested \in {5, 8}, target \in TargetChoices \ {None}}
        \cup {<<"ETH-P", 8, None>>}

(***************************************************************************)
(* DeribitOptionMarket._check_transaction                                  *)
(***************************************************************************)
\* token_config.min_amount, in quarters of the trade unit
MinAmount == AmountScale

\* __get_trade_amount: the requested amount in trade units
GetTradeAmount(requested) ==
    IF requested < MinAmount THEN 1 ELSE RoundDecimal(Frac(requested, AmountScale))

\* (1 - error) * price < x[0] < (1 + error) * price
InBand(price, x) ==
    /\ (BandError.den - BandError.num) * price < BandError.den * x
    /\ BandError.den * x < (BandError.den + BandError.num) * price

FindAvailableOrders(price, order_list) == SelectSeq(order_list, LAMBDA x : InBand(price, x.price))

Checked(err, amount, price) == [err |-> err, amount |-> amount, price |-> price]

\* a check that lets every amount through, whatever the book holds
CheckTransaction_AnyAmount(data, instrument_name, requested, target, is_buy) ==
    IF instrument_name \notin DOMAIN data.book
        THEN Checked("is not in current orderbook", 0, None)
    ELSE IF requested < MinAmount
        THEN Checked("amount should greater than min amount", 0, None)
    ELSE LET instrument == data.book[instrument_name]
             side == IF is_buy THEN instrument.asks ELSE instrument.bids
             available_orders == IF target # None THEN FindAvailableOrders(target, side) ELSE side
         IN  IF target # None /\ Len(available_orders) < 1
                 THEN Checked("doesn't have a order in price", 0, None)
                 ELSE Checked("ok", GetTradeAmount(requested),
                              IF target # None THEN available_orders[1].price ELSE None)

CheckTransaction(data, instrument_name, requested, target, is_buy) ==
    IF instrument_name \notin DOMAIN data.book
        THEN Checked("is not in current orderbook", 0, None)
    ELSE IF requested < MinAmount
        THEN Checked("amount should greater than min amount", 0, None)
    ELSE LET amount == GetTradeAmount(requested)
             instrument == data.book[instrument_name]
             side == IF is_buy THEN instrument.asks ELSE instrument.bids
             available_orders == IF target # None THEN FindAvailableOrders(target, side) ELSE side
         IN  IF target # None /\ Len(available_orders) < 1
                 THEN Checked("doesn't have a order in price", 0, None)
             ELSE LET price_in_token == IF target # None THEN available_orders[1].price ELSE None
                      available_amount ==
                          IF target # None THEN available_orders[1].amount
                                           ELSE SumAmount(available_orders)
                  IN  IF amount > available_amount
                          THEN Checked("insufficient order", 0, None)
                          ELSE Checked("ok", amount, price_in_token)

(***************************************************************************)
(* DeribitOptionMarket._deduct_order_amount: the levels after the          *)
(* deduction and the list of matched orders.                               *)
(***************************************************************************)
Deducted(orders, order_list) == [orders |-> orders, order_list |-> order_list]

\* with a price: every level at exactly that price gives the whole amount
RECURSIVE MatchedAt(_, _, _)
MatchedAt(orders, amount, price) ==
    IF orders = << >> THEN << >>
    ELSE (IF Head(orders).price = price THEN <<Order(Whole(price), amount)>> ELSE << >>)
             \o MatchedAt(Tail(orders), amount, price)

\* without a price: the levels are swept in list order
RECURSIVE Sweep(_, _, _, _)
Sweep(orders, i, amount_to_deduct, order_list) ==
    IF i > Len(orders) THEN Deducted(orders, order_list)
    ELSE IF orders[i].amount = 0 THEN Sweep(orders, i + 1, amount_to_deduct, order_list)
    ELSE LET should_deduct == IF orders[i].amount < amount_to_deduct
                                  THEN orders[i].amount ELSE amount_to_deduct
             left == amount_to_deduct - should_deduct
             orders1 == [orders EXCEPT ![i].amount = @ - should_deduct]
             list1 == Append(order_list, Order(Whole(orders[i].price), should_deduct))
         IN  IF orders1[i].amount > 0 \/ left = 0
                 THEN Deducted(orders1, list1)
                 ELSE Sweep(orders1, i + 1, left, list1)


\* a deduction that takes the whole amount from the first level that is not
\* empty
DeductOrderAmount_FirstLevel(amount, orders, price_in_token) ==
    LET first == CHOOSE i \in 1..Len(orders) :
                     /\ orders[i].amount # 0
                     /\ \A j \in 1..(i - 1) : orders[j].amount = 0
    IN  Deducted([orders EXCEPT ![first].amount = @ - amount],
                 <<Order(Whole(orders[first].price), amount)>>)

DeductOrderAmount(amount, orders, price_in_token) ==
    IF price_in_token # None
        THEN Deducted([i \in 1..Len(orders) |->
                          IF orders[i].price = price_in_token
                              THEN [orders[i] EXCEPT !.amount = @ - amount] ELSE orders[i]],
                      MatchedAt(orders, amount, price_in_token))
        ELSE Sweep(orders, 1, amount, << >>)

(***************************************************************************)
(* The ledger of the broker: subtract_from_balance fails if the balance    *)
(* would become negative and negative balances are not allowed, and then   *)
(* leaves the balance as it is; add_to_balance always succeeds.            *)
(***************************************************************************)
\* a debit that never checks the balance
SubtractFromBalance_Unchecked(lg, allow, token, amount) ==
    [err |-> "ok", ledger |-> [lg EXCEPT ![token] = @ - amount]]

SubtractFromBalance(lg, allow, token, amount) ==
    IF ~allow /\ lg[token] - amount < 0
        THEN [err |-> "insufficient balance", ledger |-> lg]
        ELSE [err |-> "ok", ledger |-> [lg EXCEPT ![token] = @ - amount]]

AddToBalance(lg, token, amount) == [lg EXCEPT ![token] = @ + amount]

(***************************************************************************)
(* The state an operation of the venue works on, and what it reports.      *)
(***************************************************************************)
VenueState == [ledger |-> ledger, data |-> status_data, positions |-> option_positions]

\* an action record handed to _record_action
VenueAction(kind, instrument_name, amount, value, fee) ==
    [kind |-> kind, instrument_name |-> instrument_name, amount |-> amount,
     value |-> value, fee |-> fee]

\* the outcome of a trade: the state after it and its report
Outcome(st, pre, op, instrument_name, requested, target, err, amount, orders, total_premium, fee, actions) ==
    [st |-> st,
     last |-> [op |-> op, instrument |-> instrument_name, requested |-> requested,
               target |-> target, err |-> err, amount |-> amount, orders |-> orders,
               total_premium |-> total_premium, fee |-> fee, actions |-> actions,
               pre |-> pre]]

\* index of the position of an instrument in the table, 0 if there is none
PositionIndex(tbl, instrument_name) ==
    IF \E i \in 1..Len(tbl) : tbl[i].instrument_name = instrument_name
        THEN CHOOSE i \in 1..Len(tbl) : tbl[i].instrument_name = instrument_name
        ELSE 0

\* del self.positions[key]
RemoveAt(tbl, i) == [j \in 1..(Len(tbl) - 1) |-> IF j < i THEN tbl[j] ELSE tbl[j + 1]]

\* OptionPosition(...) of a first buy
NewPosition(instrument_name, amount, average_price) ==
    [instrument_name |-> instrument_name,
     expiry_time |-> InstrumentOf(instrument_name).expiry_time,
     strike_price |-> InstrumentOf(instrument_name).strike_price,
     type |-> InstrumentOf(instrument_name).type,
     amount |-> amount,
     avg_buy_price |-> average_price,
     buy_amount |-> amount,
     avg_sell_price |-> Whole(0),
     sell_amount |-> 0]

\* a further buy that takes the plain mean of the two prices
BoughtMore_PlainMean(position, amount, average_price) ==
    [position EXCEPT
        !.avg_buy_price = Frac(average_price.num * position.avg_buy_price.den
                                   + position.avg_buy_price.num * average_price.den,
                               2 * average_price.den * position.avg_buy_price.den),
        !.buy_amount = @ + amount,
        !.amount = @ + amount]

\* the position after a further buy
BoughtMore(position, amount, average_price) ==
    [position EXCEPT
        !.avg_buy_price = GetAveragePrice(<<Order(average_price, amount),
                                            Order(position.avg_buy_price, position.buy_amount)>>),
        !.buy_amount = @ + amount,
        !.amount = @ + amount]

\* a sell that books the amount sold but leaves the amount held as it was
Sold_AmountKept(position, amount, average_price) ==
    [position EXCEPT
        !.avg_sell_price = GetAveragePrice(<<Order(average_price, amount),
                                             Order(position.avg_sell_price, position.sell_amount)>>),
        !.sell_amount = @ + amount]


\* a sell that lowers the amount held but does not book the amount sold
Sold_SellAmountKept(position, amount, average_price) ==
    [position EXCEPT
        !.avg_sell_price = GetAveragePrice(<<Order(average_price, amount),
                                             Order(position.avg_sell_price, position.sell_amount)>>),
        !.amount = @ - amount]

\* the position after a sell
Sold(position, amount, average_price) ==
    [position EXCEPT
        !.avg_sell_price = GetAveragePrice(<<Order(average_price, amount),
                                             Order(position.avg_sell_price, position.sell_amount)>>),
        !.sell_amount = @ + amount,
        !.amount = @ - amount]

(***************************************************************************)
(* DeribitOptionMarket.buy                                                 *)
(***************************************************************************)
BuyOn(st, instrument_name, requested, target) ==
    LET checked == CheckTransaction(st.data, instrument_name, requested, target, TRUE)
    IN  IF checked.err # "ok"
            THEN Outcome(st, st, "buy", instrument_name, requested, target, checked.err,
                         0, << >>, 0, 0, << >>)
        ELSE
        LET amount == checked.amount
            deducted == DeductOrderAmount(amount, st.data.book[instrument_name].asks,
                                          checked.price)
            ask_list == deducted.order_list
            data1 == [st.data EXCEPT !.book[instrument_name].asks = deducted.orders]
            total_premium == TotalPremium(ask_list)
            fee_amount == GetTradeFee(amount, total_premium)
            paid == SubtractFromBalance(st.ledger, allow_negative_balance, VenueToken,
                                        total_premium + fee_amount)
            average_price == GetAveragePrice(ask_list)
            i == PositionIndex(st.positions, instrument_name)
            positions1 ==
                IF i = 0 THEN Append(st.positions,
                                     NewPosition(instrument_name, amount, average_price))
                         ELSE [st.positions EXCEPT
                                  ![i] = BoughtMore(st.positions[i], amount, average_price)]
        IN  IF paid.err # "ok"
                THEN Outcome([st EXCEPT !.data = data1], st, "buy", instrument_name,
                             requested, target, paid.err, amount, ask_list, total_premium,
                             fee_amount, << >>)
                ELSE Outcome([ledger |-> paid.ledger, data |-> data1, positions |-> positions1],
                             st, "buy", instrument_name, requested, target, "ok", amount,
                             ask_list, total_premium, fee_amount,
                             <<VenueAction("buy", instrument_name, amount, total_premium,
                                           fee_amount)>>)

(***************************************************************************)
(* DeribitOptionMarket.sell                                                *)
(***************************************************************************)
SellOn(st, instrument_name, requested, target) ==
    LET checked == CheckTransaction(st.data, instrument_name, requested, target, FALSE)
    IN  IF checked.err # "ok"
            THEN Outcome(st, st, "sell", instrument_name, requested, target, checked.err,
                         0, << >>, 0, 0, << >>)
        ELSE
        LET amount == checked.amount
            deducted == DeductOrderAmount(amount, st.data.book[instrument_name].bids,
                                          checked.price)
            bid_list == deducted.order_list
            data1 == [st.data EXCEPT !.book[instrument_name].bids = deducted.orders]
            total_premium == TotalPremium(bid_list)
            fee == GetTradeFee(amount, total_premium)
            ledger1 == AddToBalance(st.ledger, VenueToken, total_premium - fee)
            average_price == GetAveragePrice(bid_list)
            i == PositionIndex(st.positions, instrument_name)
        IN  IF i = 0
                THEN Outcome([st EXCEPT !.data = data1, !.ledger = ledger1], st, "sell",
                             instrument_name, requested, target, "No such instrument position",
                             amount, bid_list, total_premium, fee, << >>)
            ELSE
            LET position == Sold(st.positions[i], amount, average_price)
                positions1 == IF position.amount <= 0
                                  THEN RemoveAt(st.positions, i)
                                  ELSE [st.positions EXCEPT ![i] = position]
            IN  Outcome([ledger |-> ledger1, data |-> data1, positions |-> positions1], st,
                        "sell", instrument_name, requested, target, "ok", amount, bid_list,
                        total_premium, fee,
                        <<VenueAction("sell", instrument_name, amount, total_premium, fee)>>)

(***************************************************************************)
(* DeribitOptionMarket.check_option_exercise and _deliver_option           *)
(***************************************************************************)
\* expiry only once the timestamp is past the expiry time
HasExpired_Past(ts, position) == ts > position.expiry_time

\* the position has reached its expiry at the bound timestamp
HasExpired(ts, position) == ts >= position.expiry_time

\* the position is in the money at the price of the underlying
InTheMoney(position, underlying_price) ==
    \/ position.type = "put" /\ position.strike_price > underlying_price
    \/ position.type = "call" /\ position.strike_price < underlying_price

\* a delivery that is made whatever the fee
DeliverOption_Always(position, mark_price, underlying_price) ==
    LET fee == GetDeliverFee(position.amount, position.amount * RoundDecimal(mark_price))
        price_diff == IF position.type = "call"
                          THEN underlying_price - position.strike_price
                          ELSE position.strike_price - underlying_price
    IN  [delivered |-> TRUE,
         deliver_amount |-> RoundDecimal(Frac(position.amount * price_diff * MoneyScale,
                                              underlying_price)),
         fee |-> fee]

\* _deliver_option: the delivery and its fee, or nothing if the fee would
\* use it up
DeliverOption(position, mark_price, underlying_price) ==
    LET fee == GetDeliverFee(position.amount, position.amount * RoundDecimal(mark_price))
        price_diff == IF position.type = "call"
                          THEN underlying_price - position.strike_price
                          ELSE position.strike_price - underlying_price
        balance_to_add == RoundDecimal(Frac(position.amount * price_diff * MoneyScale,
                                            underlying_price))
    IN  IF balance_to_add <= fee
            THEN [delivered |-> FALSE, deliver_amount |-> 0, fee |-> 0]
            ELSE [delivered |-> TRUE, deliver_amount |-> balance_to_add, fee |-> fee]

\* the first loop: the expired positions are looked at in table order; acc
\* holds the ledger, the recorded actions, the keys to remove and the error
RECURSIVE Exercise(_, _, _, _)
Exercise(tbl, data, ts, acc) ==
    IF tbl = << >> \/ acc.err # "ok" THEN acc
    ELSE LET position == Head(tbl)
         IN  IF ~HasExpired(ts, position) THEN Exercise(Tail(tbl), data, ts, acc)
             ELSE IF position.instrument_name \notin DOMAIN data.book
                 THEN [acc EXCEPT !.err = "is not in current orderbook"]
             ELSE LET instrument == data.book[position.instrument_name]
                      d == IF InTheMoney(position, data.underlying_price)
                               THEN DeliverOption(position, instrument.mark_price,
                                                  data.underlying_price)
                               ELSE [delivered |-> FALSE, deliver_amount |-> 0, fee |-> 0]
                      acc1 == IF d.delivered
                                  THEN [acc EXCEPT
                                           !.ledger = AddToBalance(@, VenueToken,
                                                                   d.deliver_amount - d.fee),
                                           !.actions = Append(@,
                                               VenueAction("deliver", position.instrument_name,
                                                           position.amount, d.deliver_amount,
                                                           d.fee))]
                                  ELSE acc
                  IN  Exercise(Tail(tbl), data, ts,
                               [acc1 EXCEPT !.key_to_remove = Append(@, position.instrument_name)])

\* the second loop: an ExpiredAction for every key, and the position removed
RECURSIVE RemoveExpired(_, _, _)
RemoveExpired(keys, tbl, actions) ==
    IF keys = << >> THEN [positions |-> tbl, actions |-> actions]
    ELSE LET i == PositionIndex(tbl, Head(keys))
         IN  RemoveExpired(Tail(keys), RemoveAt(tbl, i),
                           Append(actions,
                                  VenueAction("expire", Head(keys), tbl[i].amount, 0, 0)))

CheckOptionExercise(st, ts) ==
    LET acc == Exercise(st.positions, st.data, ts,
                        [ledger |-> st.ledger, actions |-> << >>, key_to_remove |-> << >>,
                         err |-> "ok"])
    IN  IF acc.err # "ok"
            THEN Outcome([st EXCEPT !.ledger = acc.ledger], st, "update", "none", 0, None,
                         acc.err, 0, << >>, 0, 0, acc.actions)
            ELSE LET removed == RemoveExpired(acc.key_to_remove, st.positions, acc.actions)
                 IN  Outcome([st EXCEPT !.ledger = acc.ledger, !.positions = removed.positions],
                             st, "update", "none", 0, None, "ok", 0, << >>, 0, 0,
                             removed.actions)

(***************************************************************************)
(* The operations on the venue and the ledger.                             *)
(***************************************************************************)
\* Actuator is constructed and no run is under way
ActuatorAtRest ==
    /\ markets = << >>
    /\ token_prices = [isset |-> FALSE, index |-> << >>, tokens |-> {}]
    /\ assets = {VenueToken}
    /\ triggers = 0
    /\ action_list = << >>
    /\ cur_actions = << >>
    /\ cur_timestamp = None
    /\ account_status_list = << >>
    /\ backtest_finished = FALSE
    /\ market_status = << >>
    /\ has_update = << >>
    /\ positions = << >>
    /\ pc = "idle"
    /\ row_id = 0
    /\ k = 1
    /\ error = "ok"
    /\ calls = << >>
    /\ ncalls = [c \in Counted |-> 0]
    /\ notified = << >>
    /\ ticks_done = << >>
    /\ last_query = NoQuery
    /\ runs = 0
    /\ ops = 0

\* the state after an operation
Becomes(outcome) ==
    /\ ledger' = outcome.st.ledger
    /\ status_data' = outcome.st.data
    /\ option_positions' = outcome.st.positions
    /\ last' = outcome.last

\* set_market_status(t): the status is bound to the row of the next timestamp
SetStatus ==
    /\ status_timestamp < MaxLen
    /\ status_timestamp' = status_timestamp + 1
    /\ status_data' = RowAt(venue_data, status_timestamp + 1)
    /\ last' = [NoOperation EXCEPT !.op = "set_market_status", !.pre = VenueState]
    /\ prior' = NoOperation
    /\ UNCHANGED <<allow_negative_balance, venue_data, ledger, option_positions, venue_ops>>
    /\ UNCHANGED <<actuator, squeeth>>

Buy ==
    /\ status_timestamp # None
    /\ venue_ops < MaxVenueOps
    /\ \E trade \in TradeChoices : Becomes(BuyOn(VenueState, trade[1], trade[2], trade[3]))
    /\ prior' = NoOperation
    /\ venue_ops' = venue_ops + 1
    /\ UNCHANGED <<allow_negative_balance, venue_data, status_timestamp>>
    /\ UNCHANGED <<actuator, squeeth>>

Sell ==
    /\ status_timestamp # None
    /\ venue_ops < MaxVenueOps
    /\ \E trade \in TradeChoices : Becomes(SellOn(VenueState, trade[1], trade[2], trade[3]))
    /\ prior' = (IF last.op = "buy" THEN last ELSE NoOperation)
    /\ venue_ops' = venue_ops + 1
    /\ UNCHANGED <<allow_negative_balance, venue_data, status_timestamp>>
    /\ UNCHANGED <<actuator, squeeth>>

\* update(): check_option_exercise()
Update ==
    /\ status_timestamp # None
    /\ last.op # "update"
    /\ Becomes(CheckOptionExercise(VenueState, status_timestamp))
    /\ prior' = NoOperation
    /\ UNCHANGED <<allow_negative_balance, venue_data, status_timestamp, venue_ops>>
    /\ UNCHANGED <<actuator, squeeth>>

\* amounts of the direct ledger operations
LedgerAmountChoices == {2500}

\* broker.add_to_balance by another party
Credit ==
    /\ venue_ops < MaxVenueOps
    /\ \E token \in Tokens, amount \in LedgerAmountChoices :
          /\ ledger' = AddToBalance(ledger, token, amount)
          /\ last' = [NoOperation EXCEPT !.op = "credit", !.instrument = token,
                                         !.requested = amount, !.pre = VenueState]
    /\ prior' = NoOperation
    /\ venue_ops' = venue_ops + 1
    /\ UNCHANGED <<allow_negative_balance, venue_data, status_timestamp, status_data,
                   option_positions>>
    /\ UNCHANGED <<actuator, squeeth>>

\* broker.subtract_from_balance by another party
Debit ==
    /\ venue_ops < MaxVenueOps
    /\ \E token \in Tokens, amount \in LedgerAmountChoices :
          LET res == SubtractFromBalance(ledger, allow_negative_balance, token, amount)
          IN  /\ ledger' = res.ledger
              /\ last' = [NoOperation EXCEPT !.op = "debit", !.instrument = token,
                                             !.requested = amount, !.err = res.err,
                                             !.pre = VenueState]
    /\ prior' = NoOperation
    /\ venue_ops' = venue_ops + 1
    /\ UNCHANGED <<allow_negative_balance, venue_data, status_timestamp, status_data,
                   option_positions>>
    /\ UNCHANGED <<actuator, squeeth>>

\* the broker's settings: negative balances allowed or not, and the balance
\* the settlement token starts with
BrokerChoices == {<<FALSE, 3000>>, <<FALSE, 20000>>, <<TRUE, 3000>>}

OptionInit ==
    /\ ActuatorAtRest
    /\ \E broker \in BrokerChoices :
          /\ allow_negative_balance = broker[1]
          /\ ledger = [t \in Tokens |-> IF t = VenueToken THEN broker[2] ELSE 0]
    /\ venue_data \in DataChoices
    /\ status_timestamp = None
    /\ status_data = << >>
    /\ option_positions = << >>
    /\ last = NoOperation
    /\ prior = NoOperation
    /\ venue_ops = 0
    /\ SqueethAtRest

OptionNext ==
    \/ SetStatus
    \/ Buy
    \/ Sell
    \/ Update
    \/ Credit
    \/ Debit

OptionSpec == OptionInit /\ [][OptionNext]_vars


(***************************************************************************)
(* Properties of the ledger and the option venue.                          *)
(***************************************************************************)
\* C13: while negative balances are not allowed every balance of the ledger
\* is at least 0; a debit that would make a balance negative fails and
\* leaves the ledger as it was, a debit that succeeds takes exactly its
\* amount, and a credit always succeeds and adds exactly its amount.
C13_NoNegativeBalance ==
    /\ ~allow_negative_balance => \A token \in Tokens : ledger[token] >= 0
    /\ (last.op = "debit" /\ ~allow_negative_balance) =>
          IF last.pre.ledger[last.instrument] - last.requested < 0
              THEN last.err # "ok" /\ ledger = last.pre.ledger
              ELSE /\ last.err = "ok"
                   /\ ledger = [last.pre.ledger EXCEPT ![last.instrument] = @ - last.requested]
    /\ last.op = "credit" =>
          /\ last.err = "ok"
          /\ ledger = [last.pre.ledger EXCEPT ![last.instrument] = @ + last.requested]
    /\ (last.op = "buy" /\ last.err = "insufficient balance") => ledger = last.pre.ledger

\* a debit of more than the balance holds was refused after an earlier
\* operation had changed the balance
C13_Witness ==
    /\ ~allow_negative_balance
    /\ last.op = "debit"
    /\ last.err = "insufficient balance"
    /\ last.instrument = VenueToken
    /\ ledger[VenueToken] > 0
    /\ ledger[VenueToken] \notin {b[2] : b \in BrokerChoices}

\* the liquidity a trade can draw on: the amount of the first level within
\* the band of the target price, or the sum of all levels without a target
AvailableAmount(data, instrument_name, target, is_buy) ==
    LET instrument == data.book[instrument_name]
        side == IF is_buy THEN instrument.asks ELSE instrument.bids
        in_band == FindAvailableOrders(target, side)
    IN  IF target = None THEN SumAmount(side)
        ELSE IF in_band = << >> THEN 0
        ELSE in_band[1].amount

\* the last operation is a trade in a listed instrument of at least the
\* minimum amount
IsTrade ==
    /\ last.op \in {"buy", "sell"}
    /\ last.instrument \in DOMAIN last.pre.data.book
    /\ last.requested >= MinAmount

\* the trade failed and left the book, the ledger, the positions and the
\* recorded actions as they were
FailedUnchanged ==
    /\ last.err # "ok"
    /\ last.actions = << >>
    /\ VenueState = last.pre

\* C14 as stated: a buy or sell whose requested amount exceeds the available
\* liquidity fails before anything is changed.
C14_ExcessRequestFailsUnchanged ==
    (IsTrade /\ last.requested >
                    AmountScale * AvailableAmount(last.pre.data, last.instrument, last.target,
                                                  last.op = "buy"))
        => FailedUnchanged

\* C14 amended: a buy or sell whose requested amount, rounded to the trade
\* precision, exceeds the available liquidity fails before anything is
\* changed: no level is decremented, the ledger is unchanged, no position is
\* created or modified and no action is recorded.
C14_RoundedExcessFailsUnchanged ==
    (IsTrade /\ GetTradeAmount(last.requested) >
                    AvailableAmount(last.pre.data, last.instrument, last.target,
                                    last.op = "buy"))
        => FailedUnchanged

\* a trade at a target price asked for more than the first level in the
\* band held, while a position was open
C14_Witness ==
    /\ IsTrade
    /\ last.target # None
    /\ last.err = "insufficient order"
    /\ last.pre.positions # << >>
    /\ GetTradeAmount(last.requested) >
           AvailableAmount(last.pre.data, last.instrument, last.target, last.op = "buy")

\* C15: a sell of an instrument for which no position exists is rejected: it
\* fails, the settlement token is not credited, the bids of the book are not
\* decremented and no sell action is recorded.
C15_SellWithoutPositionRejected ==
    (last.op = "sell" /\ PositionIndex(last.pre.positions, last.instrument) = 0) =>
        /\ last.err # "ok"
        /\ ledger = last.pre.ledger
        /\ status_data = last.pre.data
        /\ \A i \in 1..Len(last.actions) : last.actions[i].kind # "sell"

\* n is x rounded to a whole number: no whole number is nearer to x
IsRounded(n, x) ==
    LET d == n * x.den - x.num
    IN  2 * (IF d < 0 THEN -d ELSE d) <= x.den

\* the last operation is a trade that succeeded
TradeSucceeded == last.op \in {"buy", "sell"} /\ last.err = "ok"

\* C16: for a successful trade with filled amount a and notional n, the fee
\* is min(trade_fee_rate * a, 0.125 * n) rounded to the fee precision; a buy
\* lowers the balance of the settlement token by exactly n + fee, a sell
\* raises it by exactly n - fee, and no other balance changes.
C16_FeeAndLedgerDelta ==
    TradeSucceeded =>
        LET a == last.amount
            n == TotalPremium(last.orders)
            by_amount == Frac(TradeFeeRate.num * a * MoneyScale, TradeFeeRate.den)
            by_notional == Frac(MAX_FEE_RATE.num * n, MAX_FEE_RATE.den)
        IN  /\ IsRounded(last.fee, IF FracLeq(by_amount, by_notional)
                                       THEN by_amount ELSE by_notional)
            /\ last.actions = <<VenueAction(last.op, last.instrument, a, n, last.fee)>>
            /\ ledger = [last.pre.ledger EXCEPT
                             ![VenueToken] = IF last.op = "buy" THEN @ - (n + last.fee)
                                                               ELSE @ + (n - last.fee)]

\* a sell succeeded whose fee is the cap of the notional, rounded up from a
\* fraction of the fee unit
C16_Witness ==
    /\ TradeSucceeded
    /\ last.op = "sell"
    /\ (MAX_FEE_RATE.num * last.total_premium) % MAX_FEE_RATE.den # 0
    /\ last.fee * MAX_FEE_RATE.den > MAX_FEE_RATE.num * last.total_premium
    /\ last.fee * TradeFeeRate.den < TradeFeeRate.num * last.amount * MoneyScale
    /\ ledger[VenueToken] = last.pre.ledger[VenueToken] + last.total_premium - last.fee

\* the fractions x and y are equal
FracEq(x, y) == x.num * y.den = y.num * x.den

\* the average price avg over the amount total is the volume-weighted mean
\* of the price p0 over a0 and the price p over a
IsWeightedMean(avg, total, p0, a0, p, a) ==
    /\ total = a0 + a
    /\ avg.num * (p0.den * p.den) * total
           = avg.den * (p0.num * a0 * p.den + p.num * a * p0.den)

\* the position of the traded instrument before and after the last trade
\* (none: the empty sequence)
PositionOf(tbl, instrument_name) ==
    IF PositionIndex(tbl, instrument_name) = 0
        THEN << >> ELSE tbl[PositionIndex(tbl, instrument_name)]

BoughtThenSold ==
    /\ last.op = "sell"
    /\ last.err = "ok"
    /\ prior.op = "buy"
    /\ prior.err = "ok"
    /\ prior.instrument = last.instrument
    /\ prior.requested = last.requested

Updated == last.op = "update" /\ last.err = "ok"

\* C19: after update() has returned at timestamp t no position has an expiry
\* time of t or before: the positions that had reached expiry are removed,
\* each with a settlement action, and the others are left as they were.
C19_NoExpiredPositionAfterUpdate ==
    Updated =>
        /\ \A i \in 1..Len(option_positions) :
               option_positions[i].expiry_time > status_timestamp
        /\ option_positions =
               SelectSeq(last.pre.positions, LAMBDA q : q.expiry_time > status_timestamp)
        /\ \A i \in 1..Len(last.pre.positions) :
               last.pre.positions[i].expiry_time <= status_timestamp =>
                   \E j \in 1..Len(last.actions) :
                       /\ last.actions[j].kind \in {"deliver", "expire"}
                       /\ last.actions[j].instrument_name
                              = last.pre.positions[i].instrument_name

\* an update at the expiry time of one position removed it and kept a
\* position that expires later
C19_Witness ==
    /\ Updated
    /\ Len(last.pre.positions) = 2
    /\ Len(option_positions) = 1
    /\ \E i \in 1..2 : last.pre.positions[i].expiry_time = status_timestamp
    /\ option_positions[1].expiry_time > status_timestamp

\* what the settlement of the position pos credits at the underlying price
\* u when the fee is fee: delivery less fee if the position is in the money
\* and the delivery is more than the fee, nothing otherwise
IsPutInTheMoney(pos, u) == pos.type = "put" /\ pos.strike_price > u

IsCallInTheMoney(pos, u) == pos.type = "call" /\ pos.strike_price < u

\* the deliver actions recorded for an instrument
DeliveriesOf(actions, instrument_name) ==
    SelectSeq(actions, LAMBDA x : x.kind = "deliver" /\ x.instrument_name = instrument_name)

RECURSIVE SumDelivered(_)
SumDelivered(actions) ==
    IF actions = << >> THEN 0
    ELSE (IF Head(actions).kind = "deliver" THEN Head(actions).value - Head(actions).fee ELSE 0)
             + SumDelivered(Tail(actions))

\* C20: at the settlement of an expired position a put is exercised only if
\* strike > underlying and a call only if strike < underlying; the delivery
\* is amount * |underlying - strike| / underlying rounded, and the ledger is
\* credited delivery - fee if the delivery is more than the fee and is left
\* as it was otherwise.
C20_MoneynessAndDelivery ==
    Updated =>
        LET u == last.pre.data.underlying_price
        IN  /\ \A i \in 1..Len(last.pre.positions) :
                   LET pos == last.pre.positions[i]
                       diff == IF pos.strike_price > u THEN pos.strike_price - u
                                                       ELSE u - pos.strike_price
                       exact == Frac(pos.amount * diff * MoneyScale, u)
                       fee == GetDeliverFee(pos.amount,
                                  pos.amount * RoundDecimal(
                                      last.pre.data.book[pos.instrument_name].mark_price))
                       delivered == DeliveriesOf(last.actions, pos.instrument_name)
                   IN  IF pos.expiry_time > status_timestamp THEN delivered = << >>
                       ELSE IF ~(IsPutInTheMoney(pos, u) \/ IsCallInTheMoney(pos, u))
                           THEN delivered = << >>
                       ELSE \/ /\ delivered = << >>
                               /\ \E d \in 0..fee : IsRounded(d, exact)
                            \/ /\ Len(delivered) = 1
                               /\ delivered[1].amount = pos.amount
                               /\ IsRounded(delivered[1].value, exact)
                               /\ delivered[1].fee = fee
                               /\ delivered[1].value > fee
            /\ ledger = [last.pre.ledger EXCEPT ![VenueToken] = @ + SumDelivered(last.actions)]

\* a put in the money was exercised at its expiry: one deliver action, the
\* ledger credited the delivery less the fee, the position removed
C20_Witness ==
    /\ Updated
    /\ Len(last.pre.positions) = 1
    /\ IsPutInTheMoney(last.pre.positions[1], last.pre.data.underlying_price)
    /\ last.pre.positions[1].expiry_time <= status_timestamp
    /\ Len(DeliveriesOf(last.actions, last.pre.positions[1].instrument_name)) = 1
    /\ ledger[VenueToken] > last.pre.ledger[VenueToken]
    /\ ledger[VenueToken] - last.pre.ledger[VenueToken]
           = last.actions[1].value - last.actions[1].fee
    /\ option_positions = << >>

\* the settlement actions recorded for an instrument
SettlementsOf(actions, instrument_name) ==
    SelectSeq(actions, LAMBDA x : x.kind \in {"deliver", "expire"}
                                      /\ x.instrument_name = instrument_name)

\* C21: for each position settled at expiry exactly one settlement action
\* is recorded: a deliver action when a delivery was credited, otherwise an
\* expire action; a position never yields both and never yields none.
C21_OneSettlementAction ==
    Updated =>
        \A i \in 1..Len(last.pre.positions) :
            LET pos == last.pre.positions[i]
                settled == SettlementsOf(last.actions, pos.instrument_name)
            IN  pos.expiry_time <= status_timestamp =>
                    /\ Len(settled) = 1
                    /\ settled[1].kind =
                           (IF ledger[VenueToken] > last.pre.ledger[VenueToken]
                                THEN "deliver" ELSE "expire")

(***************************************************************************)
(* Part 3: SqueethMarket (src/demeter/squeeth/market.py), the vault venue. *)
(*                                                                         *)
(* Amounts, prices and the norm factor are exact fractions [num, den].     *)
(***************************************************************************)
FracAdd(x, y) == Frac(x.num * y.den + y.num * x.den, x.den * y.den)

FracSub(x, y) == Frac(x.num * y.den - y.num * x.den, x.den * y.den)

FracMul(x, y) == Frac(x.num * y.num, x.den * y.den)

FracDiv(x, y) == Frac(x.num * y.den, x.den * y.num)

FracLt(x, y) == x.num * y.den < y.num * x.den

Zero == Whole(0)

\* SqueethMarket.MIN_DEPOSIT_AMOUNT = 0.5
MIN_DEPOSIT_AMOUNT == Frac(1, 2)

\* SqueethMarket.CR_NUMERATOR = 3, CR_DENOMINATOR = 2
CR_NUMERATOR == Whole(3)

CR_DENOMINATOR == Whole(2)

\* SqueethMarket.REDUCE_DEBT_BOUNTY = 0.02
REDUCE_DEBT_BOUNTY == Frac(2, 100)

\* SqueethMarket.LIQUIDATION_BOUNTY = 0.1
LIQUIDATION_BOUNTY == Frac(1, 10)

\* SqueethMarket.MIN_COLLATERAL = 0.5
MIN_COLLATERAL == Frac(1, 2)

\* the tokens of the vault venue
SqueethTokens == {"weth", "osqth"}

\* rows of the data of the vault venue in one behaviour
MaxRows == 1

\* rows of the data: the norm factor and the prices of weth and osqth, the
\* prices being the time-weighted ones of the row
SqueethRowChoices ==
    {[norm_factor |-> Frac(1, 2), weth |-> Whole(w), osqth |-> Whole(1)] : w \in {1, 3}}

\* get_norm_factor
GetNormFactor(row) == row.norm_factor

\* get_twap_price(token)
GetTwapPrice(row, token) == row[token]

\* the positions of the paired pool: the weth and osqth a position holds,
\* its liquidity, and whether the pool still lists it
PositionIds == {1, 2}

PoolPosition(weth, osqth, liquidity) ==
    [weth |-> weth, osqth |-> osqth, liquidity |-> liquidity, listed |-> TRUE]

PoolChoices ==
    {<<PoolPosition(Frac(1, 4), Zero, 1), PoolPosition(Frac(1, 4), Zero, 1)>>,
     <<PoolPosition(Frac(1, 4), Frac(3, 10), 1), PoolPosition(Zero, Zero, 0)>>}

\* squeeth_uni_pool.transfer_position_out
TransferPositionOut(pl, id) == [pl EXCEPT ![id].listed = FALSE]

\* squeeth_uni_pool.remove_liquidity: the position pays out what it holds
RemoveLiquidity(pl, id) ==
    [pool |-> [pl EXCEPT ![id] = [weth |-> Zero, osqth |-> Zero, liquidity |-> 0,
                                  listed |-> FALSE]],
     weth_get |-> pl[id].weth,
     osqth_get |-> pl[id].osqth]

\* Broker.add_to_balance with a fractional amount
AddDecimalToBalance(lg, token, amount) == [lg EXCEPT ![token] = FracAdd(@, amount)]

\* Vault(id)
Vault(id) ==
    [id |-> id, collateral_amount |-> Zero, osqth_short_amount |-> Zero, uni_nft_id |-> None]

\* index of the vault of a key in the table, 0 if there is none
VaultIndex(tbl, vault_key) ==
    IF \E i \in 1..Len(tbl) : tbl[i].id = vault_key
        THEN CHOOSE i \in 1..Len(tbl) : tbl[i].id = vault_key
        ELSE 0

\* self.vault[vault_key] = v
PutVault(tbl, v) ==
    IF VaultIndex(tbl, v.id) = 0 THEN Append(tbl, v)
                                 ELSE [tbl EXCEPT ![VaultIndex(tbl, v.id)] = v]

\* np.random.randint(10000, 100000): the keys a new vault may get
VaultKeyChoices == {1, 2}

\* the state an operation of the vault venue works on
SqueethState == [vault |-> vault, ledger |-> ledger, pool |-> pool]

\* _get_effective_collateral_in_eth
GetEffectiveCollateralInEth(v, pl, norm_factor, eth_price) ==
    LET nft_weth_amount == IF v.uni_nft_id # None THEN pl[v.uni_nft_id].weth ELSE Zero
        nft_squeeth_amount == IF v.uni_nft_id # None THEN pl[v.uni_nft_id].osqth ELSE Zero
        osqth_index_val_in_eth == FracDiv(FracMul(nft_squeeth_amount, norm_factor), eth_price)
    IN  FracAdd(FracAdd(nft_weth_amount, osqth_index_val_in_eth), v.collateral_amount)

\* a status whose safety test is strict
GetVaultStatus_Strict(v, pl, norm_factor, row) ==
    IF v.osqth_short_amount = Zero THEN [is_safe |-> TRUE, is_dust |-> FALSE]
    ELSE LET debt == FracMul(FracMul(v.osqth_short_amount, norm_factor), GetTwapPrice(row, "weth"))
             total == GetEffectiveCollateralInEth(v, pl, norm_factor, GetTwapPrice(row, "weth"))
         IN  [is_safe |-> FracLt(FracMul(debt, CR_NUMERATOR), FracMul(total, CR_DENOMINATOR)),
              is_dust |-> FracLt(total, MIN_DEPOSIT_AMOUNT)]

\* _get_vault_status: (is_above_water, is_dust)
GetVaultStatus(v, pl, norm_factor, row) ==
    LET eth_price == GetTwapPrice(row, "weth")
    IN  IF v.osqth_short_amount = Zero THEN [is_safe |-> TRUE, is_dust |-> FALSE]
        ELSE LET debt_value_in_eth == FracMul(FracMul(v.osqth_short_amount, norm_factor),
                                              eth_price)
                 total_collateral == GetEffectiveCollateralInEth(v, pl, norm_factor, eth_price)
             IN  [is_safe |-> FracLeq(FracMul(debt_value_in_eth, CR_NUMERATOR),
                                      FracMul(total_collateral, CR_DENOMINATOR)),
                  is_dust |-> FracLt(total_collateral, MIN_DEPOSIT_AMOUNT)]

\* _check_vault: the error it raises, "ok" if none
CheckVault(v, pl, norm_factor, row) ==
    LET status == GetVaultStatus(v, pl, norm_factor, row)
    IN  IF ~status.is_safe THEN "Vault collateral rate is not safe"
        ELSE IF ~status.is_dust THEN "Vault collateral is below dust"
        ELSE "ok"

\* _get_fee(vault, deposit_eth_amount, osqth_mint_amount): the rate is 0
GetFee(v, deposit_eth_amount, osqth_mint_amount) ==
    [fee_amount |-> Zero, deposit_amount_with_fee |-> deposit_eth_amount]

\* the report of an operation of the vault venue
SqueethReport(op, vault_key, args, err, returned, pre) ==
    [op |-> op, vault_key |-> vault_key, args |-> args, err |-> err, returned |-> returned,
     pre |-> pre]

\* the outcome of an operation: the state after it and its error
SqueethOutcome(st, err, returned) == [st |-> st, err |-> err, returned |-> returned]


\* an attaching that replaces the position a vault already has
DepositUniPosition_Replaces(st, i, uni_position) ==
    IF ~st.pool[uni_position].listed
        THEN SqueethOutcome(st, "Position is not in squeeth-eth pool", None)
    ELSE IF st.pool[uni_position].liquidity <= 0
        THEN SqueethOutcome(st, "Require liquidity in squeeth-eth pool", None)
    ELSE SqueethOutcome([st EXCEPT !.vault[i].uni_nft_id = uni_position,
                                   !.pool = TransferPositionOut(@, uni_position)],
                        "ok", None)

\* _deposit_uni_position
DepositUniPosition(st, i, uni_position) ==
    IF ~st.pool[uni_position].listed
        THEN SqueethOutcome(st, "Position is not in squeeth-eth pool", None)
    ELSE IF st.pool[uni_position].liquidity <= 0
        THEN SqueethOutcome(st, "Require liquidity in squeeth-eth pool", None)
    ELSE IF st.vault[i].uni_nft_id # None
        THEN SqueethOutcome(st, "This vault already has a NFT collateral", None)
    ELSE SqueethOutcome([st EXCEPT !.vault[i].uni_nft_id = uni_position,
                                   !.pool = TransferPositionOut(@, uni_position)],
                        "ok", None)

(***************************************************************************)
(* SqueethMarket.open_deposit_mint; new_key is the key drawn for a new     *)
(* vault.                                                                  *)
(***************************************************************************)
OpenDepositMintOn(st, row, deposit_eth_amount, osqth_mint_amount, vault_key, uni_position, new_key) ==
    LET norm_factor == GetNormFactor(row)
        key == IF vault_key = None THEN new_key ELSE vault_key
        tbl0 == IF vault_key = None THEN PutVault(st.vault, Vault(key)) ELSE st.vault
        i == VaultIndex(tbl0, key)
        minted == FracLt(Zero, osqth_mint_amount)
        deposit_amount_with_fee ==
            IF minted
                THEN GetFee(tbl0[i], osqth_mint_amount, deposit_eth_amount).deposit_amount_with_fee
                ELSE deposit_eth_amount
        tbl1 == IF minted
                    THEN [tbl0 EXCEPT ![i].osqth_short_amount = FracAdd(@, osqth_mint_amount)]
                    ELSE tbl0
        ledger1 == IF minted THEN AddDecimalToBalance(st.ledger, "osqth", osqth_mint_amount)
                             ELSE st.ledger
        tbl2 == IF FracLt(Zero, deposit_eth_amount)
                    THEN [tbl1 EXCEPT ![i].collateral_amount = FracAdd(@, deposit_amount_with_fee)]
                    ELSE tbl1
        st2 == [vault |-> tbl2, ledger |-> ledger1, pool |-> st.pool]
        attached == IF uni_position # None THEN DepositUniPosition(st2, i, uni_position)
                                           ELSE SqueethOutcome(st2, "ok", None)
    IN  IF attached.err # "ok" THEN SqueethOutcome(attached.st, attached.err, key)
        ELSE SqueethOutcome(attached.st,
                            CheckVault(attached.st.vault[i], attached.st.pool, norm_factor, row),
                            key)

\* deposit(vault_key, eth_value)
DepositOn(st, vault_key, eth_value) ==
    SqueethOutcome([st EXCEPT !.vault[VaultIndex(st.vault, vault_key)].collateral_amount =
                                  FracAdd(@, eth_value)],
                   "ok", None)

\* _withdraw_collateral
WithdrawCollateral(st, row, vault_key, amount) ==
    LET i == VaultIndex(st.vault, vault_key)
        taken == IF FracLt(st.vault[i].collateral_amount, amount)
                     THEN st.vault[i].collateral_amount ELSE amount
        st1 == [st EXCEPT !.vault[i].collateral_amount = FracSub(@, taken),
                          !.ledger = AddDecimalToBalance(@, "weth", taken)]
    IN  SqueethOutcome(st1, CheckVault(st1.vault[i], st1.pool, GetNormFactor(row), row), None)

(***************************************************************************)
(* SqueethMarket.burn_and_withdraw                                         *)
(***************************************************************************)

\* a burn that subtracts whatever the short amount is
BurnAndWithdrawOn_Unclamped(st, row, vault_key, osqth_burn_amount, withdraw_eth_amount) ==
    LET i == VaultIndex(st.vault, vault_key)
        st1 == IF FracLt(Zero, osqth_burn_amount)
                   THEN [st EXCEPT !.vault[i].osqth_short_amount = FracSub(@, osqth_burn_amount)]
                   ELSE st
        withdrawn == IF FracLt(Zero, withdraw_eth_amount)
                         THEN WithdrawCollateral(st1, row, vault_key, withdraw_eth_amount)
                         ELSE SqueethOutcome(st1, "ok", None)
    IN  IF withdrawn.err # "ok" THEN withdrawn
        ELSE SqueethOutcome(withdrawn.st,
                            CheckVault(withdrawn.st.vault[i], withdrawn.st.pool,
                                       GetNormFactor(row), row),
                            None)

BurnAndWithdrawOn(st, row, vault_key, osqth_burn_amount, withdraw_eth_amount) ==
    LET i == VaultIndex(st.vault, vault_key)
        st1 == IF FracLt(Zero, osqth_burn_amount)
                   THEN [st EXCEPT !.vault[i].osqth_short_amount =
                                       IF FracLeq(osqth_burn_amount, @)
                                           THEN FracSub(@, osqth_burn_amount) ELSE Zero]
                   ELSE st
        withdrawn == IF FracLt(Zero, withdraw_eth_amount)
                         THEN WithdrawCollateral(st1, row, vault_key, withdraw_eth_amount)
                         ELSE SqueethOutcome(st1, "ok", None)
    IN  IF withdrawn.err # "ok" THEN withdrawn
        ELSE SqueethOutcome(withdrawn.st,
                            CheckVault(withdrawn.st.vault[i], withdrawn.st.pool,
                                       GetNormFactor(row), row),
                            None)

(***************************************************************************)
(* SqueethMarket.liquidate                                                 *)
(***************************************************************************)
\* _get_single_liquidation_amount
GetSingleLiquidationAmount(row, max_input_osqth, max_liquidatable_osqth) ==
    LET final_amount == IF FracLt(max_liquidatable_osqth, max_input_osqth)
                            THEN max_liquidatable_osqth ELSE max_input_osqth
        collateral_to_pay == FracMul(final_amount, GetTwapPrice(row, "osqth"))
    IN  [final_amount |-> final_amount,
         collateral_to_pay |-> FracAdd(collateral_to_pay,
                                       FracMul(collateral_to_pay, LIQUIDATION_BOUNTY))]


\* a result that is never capped at the collateral of the vault
GetLiquidationResult_Uncapped(row, max_osqth_amount, vault_short_amount, vault_collateral_amount) ==
    LET half == GetSingleLiquidationAmount(row, max_osqth_amount,
                                           FracDiv(vault_short_amount, Whole(2)))
        full == GetSingleLiquidationAmount(row, max_osqth_amount, vault_short_amount)
    IN  IF /\ FracLt(half.collateral_to_pay, vault_collateral_amount)
           /\ FracLt(FracSub(vault_collateral_amount, half.collateral_to_pay), MIN_COLLATERAL)
            THEN full ELSE half

\* _get_liquidation_result
GetLiquidationResult(row, max_osqth_amount, vault_short_amount, vault_collateral_amount) ==
    LET half == GetSingleLiquidationAmount(row, max_osqth_amount,
                                           FracDiv(vault_short_amount, Whole(2)))
        full == GetSingleLiquidationAmount(row, max_osqth_amount, vault_short_amount)
        chosen == IF /\ FracLt(half.collateral_to_pay, vault_collateral_amount)
                     /\ FracLt(FracSub(vault_collateral_amount, half.collateral_to_pay),
                               MIN_COLLATERAL)
                      THEN full ELSE half
    IN  IF FracLt(vault_collateral_amount, chosen.collateral_to_pay)
            THEN [final_amount |-> vault_short_amount,
                  collateral_to_pay |-> vault_collateral_amount]
            ELSE chosen


\* _get_reduce_debt_bounty
GetReduceDebtBounty(row, eth_withdrawn, osqth_reduced) ==
    FracMul(FracAdd(FracMul(osqth_reduced, GetTwapPrice(row, "osqth")), eth_withdrawn),
            REDUCE_DEBT_BOUNTY)

\* _reduce_debt(vault_key, True): the state after it and the bounty
ReduceDebt(st, row, i) ==
    IF st.vault[i].uni_nft_id = None THEN [st |-> st, bounty |-> Zero]
    ELSE LET redeemed == RemoveLiquidity(st.pool, st.vault[i].uni_nft_id)
             bounty == GetReduceDebtBounty(row, redeemed.weth_get, redeemed.osqth_get)
             short == st.vault[i].osqth_short_amount
             over == FracLt(short, redeemed.osqth_get)
             burn_amount == IF over THEN short ELSE redeemed.osqth_get
             osqth_excess == IF over THEN FracSub(redeemed.osqth_get, short) ELSE Zero
         IN  [st |-> [vault |-> [st.vault EXCEPT
                                    ![i].osqth_short_amount = FracSub(@, burn_amount),
                                    ![i].uni_nft_id = None,
                                    ![i].collateral_amount =
                                        FracSub(FracAdd(@, redeemed.weth_get), bounty)],
                      ledger |-> IF FracLt(Zero, osqth_excess)
                                     THEN AddDecimalToBalance(st.ledger, "osqth", osqth_excess)
                                     ELSE st.ledger,
                      pool |-> redeemed.pool],
              bounty |-> bounty]

\* _liquidate(vault, max_debt_amount, norm_factor)
LiquidateVault(st, row, i, max_debt_amount, norm_factor) ==
    LET result == GetLiquidationResult(row, max_debt_amount, st.vault[i].osqth_short_amount,
                                       st.vault[i].collateral_amount)
        st1 == [st EXCEPT
                   !.vault[i].osqth_short_amount = FracSub(@, result.final_amount),
                   !.vault[i].collateral_amount = FracSub(@, result.collateral_to_pay)]
    IN  IF FracLt(max_debt_amount, result.final_amount)
            THEN SqueethOutcome(st, "Need full liquidation", None)
        ELSE IF GetVaultStatus(st1.vault[i], st1.pool, norm_factor, row).is_dust
            THEN SqueethOutcome(st1, "Dust vault left", None)
        ELSE SqueethOutcome(st1, "ok", result.final_amount)

LiquidateOn(st, row, vault_key) ==
    LET i == VaultIndex(st.vault, vault_key)
        norm_factor == GetNormFactor(row)
    IN  IF ~GetVaultStatus(st.vault[i], st.pool, norm_factor, row).is_safe
            THEN SqueethOutcome(st, "Can not liquidate safe vault", None)
        ELSE LET reduced == ReduceDebt(st, row, i)
                 st2 == [reduced.st EXCEPT
                            !.vault[i].collateral_amount = FracAdd(@, reduced.bounty)]
             IN  IF GetVaultStatus(reduced.st.vault[i], reduced.st.pool, norm_factor,
                                   row).is_safe
                     THEN SqueethOutcome(reduced.st, "ok", Zero)
                     ELSE LiquidateVault(st2, row, i, st2.vault[i].osqth_short_amount,
                                         norm_factor)

(***************************************************************************)
(* The operations on the vault venue.                                      *)
(***************************************************************************)
\* what a caller may ask for
MintChoices == {Zero, Frac(1, 5)}

DepositChoices == {Zero, Frac(3, 5)}

BurnChoices == {Zero, Frac(1, 10), Frac(3, 10)}

WithdrawChoices == {Zero, Frac(1, 10)}

\* the keys of the vaults in the table
VaultKeys == {vault[i].id : i \in 1..Len(vault)}

\* the state after an operation and its report
SqueethBecomes(outcome, op, vault_key, args) ==
    /\ vault' = outcome.st.vault
    /\ ledger' = outcome.st.ledger
    /\ pool' = outcome.st.pool
    /\ last' = SqueethReport(op, vault_key, args, outcome.err, outcome.returned, SqueethState)

\* set_market_status(t): the status is bound to the row of the next timestamp
SetSqueethStatus ==
    /\ status_timestamp < MaxRows
    /\ status_timestamp' = status_timestamp + 1
    /\ squeeth_status' \in SqueethRowChoices
    /\ last' = SqueethReport("set_market_status", None, << >>, "ok", None, SqueethState)
    /\ UNCHANGED <<allow_negative_balance, venue_data, ledger, status_data, option_positions,
                   prior, venue_ops, vault, pool>>
    /\ UNCHANGED actuator

OpenDepositMint ==
    /\ status_timestamp # None
    /\ venue_ops < MaxVenueOps
    /\ \E deposit \in DepositChoices, mint \in MintChoices, vault_key \in VaultKeys \cup {None},
          uni_position \in PositionIds \cup {None} :
      \E new_key \in IF vault_key = None THEN VaultKeyChoices ELSE {None} :
          LET outcome == OpenDepositMintOn(SqueethState, squeeth_status, deposit, mint,
                                           vault_key, uni_position, new_key)
          IN  SqueethBecomes(outcome, "open_deposit_mint", outcome.returned,
                             [deposit |-> deposit, mint |-> mint, vault_key |-> vault_key,
                              uni_position |-> uni_position])
    /\ venue_ops' = venue_ops + 1
    /\ UNCHANGED <<allow_negative_balance, venue_data, status_timestamp, status_data,
                   option_positions, prior, squeeth_status>>
    /\ UNCHANGED actuator

Deposit ==
    /\ status_timestamp # None
    /\ venue_ops < MaxVenueOps
    /\ \E vault_key \in VaultKeys :
          SqueethBecomes(DepositOn(SqueethState, vault_key, Frac(1, 4)), "deposit", vault_key,
                         [eth_value |-> Frac(1, 4)])
    /\ venue_ops' = venue_ops + 1
    /\ UNCHANGED <<allow_negative_balance, venue_data, status_timestamp, status_data,
                   option_positions, prior, squeeth_status>>
    /\ UNCHANGED actuator

BurnAndWithdraw ==
    /\ status_timestamp # None
    /\ venue_ops < MaxVenueOps
    /\ \E vault_key \in VaultKeys, burn \in BurnChoices, withdraw \in WithdrawChoices :
          SqueethBecomes(BurnAndWithdrawOn(SqueethState, squeeth_status, vault_key, burn,
                                           withdraw),
                         "burn_and_withdraw", vault_key, [burn |-> burn, withdraw |-> withdraw])
    /\ venue_ops' = venue_ops + 1
    /\ UNCHANGED <<allow_negative_balance, venue_data, status_timestamp, status_data,
                   option_positions, prior, squeeth_status>>
    /\ UNCHANGED actuator

Liquidate ==
    /\ status_timestamp # None
    /\ venue_ops < MaxVenueOps
    /\ \E vault_key \in VaultKeys :
          SqueethBecomes(LiquidateOn(SqueethState, squeeth_status, vault_key), "liquidate",
                         vault_key, << >>)
    /\ venue_ops' = venue_ops + 1
    /\ UNCHANGED <<allow_negative_balance, venue_data, status_timestamp, status_data,
                   option_positions, prior, squeeth_status>>
    /\ UNCHANGED actuator

\* update(): pass
UpdateSqueeth ==
    /\ status_timestamp # None
    /\ last.op # "update"
    /\ last' = SqueethReport("update", None, << >>, "ok", None, SqueethState)
    /\ UNCHANGED <<allow_negative_balance, venue_data, ledger, status_timestamp, status_data,
                   option_positions, prior, venue_ops, vault, squeeth_status, pool>>
    /\ UNCHANGED actuator

SqueethInit ==
    /\ ActuatorAtRest
    /\ allow_negative_balance = FALSE
    /\ venue_data = << >>
    /\ ledger = [t \in SqueethTokens |-> Zero]
    /\ status_timestamp = None
    /\ status_data = << >>
    /\ option_positions = << >>
    /\ last = NoOperation
    /\ prior = NoOperation
    /\ venue_ops = 0
    /\ vault = << >>
    /\ squeeth_status = << >>
    /\ pool \in PoolChoices

SqueethNext ==
    \/ SetSqueethStatus
    \/ OpenDepositMint
    \/ Deposit
    \/ BurnAndWithdraw
    \/ Liquidate
    \/ UpdateSqueeth

SqueethSpec == SqueethInit /\ [][SqueethNext]_vars

(***************************************************************************)
(* Properties of the vault venue.                                          *)
(***************************************************************************)
\* the debt value of a vault: short_amount * norm_factor * eth_twap
DebtValue(v) ==
    FracMul(FracMul(v.osqth_short_amount, squeeth_status.norm_factor), squeeth_status.weth)

\* the effective collateral of a vault of the table pl belongs to
EffectiveCollateral(v, pl) ==
    GetEffectiveCollateralInEth(v, pl, squeeth_status.norm_factor, squeeth_status.weth)

\* effective_collateral * 2 >= debt_value * 3
Collateralized(v, pl) ==
    FracLeq(FracMul(DebtValue(v), Whole(3)), FracMul(EffectiveCollateral(v, pl), Whole(2)))

\* the safety predicate as _get_vault_status computes it at the bound status
IsSafe(v, pl) == GetVaultStatus(v, pl, GetNormFactor(squeeth_status), squeeth_status).is_safe

\* amounts by which a collateral is reduced
EpsilonChoices == {Frac(1, 1000), Frac(1, 10)}

Addressed == vault[VaultIndex(vault, last.vault_key)]

AddressedBefore ==
    IF last.op = "open_deposit_mint" /\ last.args.vault_key = None
        THEN Vault(last.vault_key)
        ELSE last.pre.vault[VaultIndex(last.pre.vault, last.vault_key)]

\* C23: open_deposit_mint is accepted exactly when the resulting vault is
\* safe and its collateral is not below the dust minimum; it is rejected as
\* unsafe when the debt value is above collateral * 2/3 and as dust when the
\* collateral is below the dust minimum.
C23_MintAcceptedIffSafeAndNotDust ==
    (last.op = "open_deposit_mint" /\ last.args.uni_position = None) =>
        last.err = (IF ~Collateralized(Addressed, pool)
                        THEN "Vault collateral rate is not safe"
                    ELSE IF FracLt(EffectiveCollateral(Addressed, pool), MIN_DEPOSIT_AMOUNT)
                        THEN "Vault collateral is below dust"
                    ELSE "ok")

\* C24: a successful open_deposit_mint(deposit, mint) adds mint to the short
\* amount of the vault and to the osqth balance of the ledger, and deposit
\* to the collateral of the vault; a new vault ends with collateral =
\* deposit and short amount = mint.
C24_MintDepositDeltas ==
    (last.op = "open_deposit_mint" /\ last.err = "ok") =>
        /\ Addressed.osqth_short_amount
              = FracAdd(AddressedBefore.osqth_short_amount, last.args.mint)
        /\ ledger = AddDecimalToBalance(last.pre.ledger, "osqth", last.args.mint)
        /\ Addressed.collateral_amount
              = FracAdd(AddressedBefore.collateral_amount, last.args.deposit)

\* C25: a burn_and_withdraw that fails its re-validation has no effect: the
\* short amount and the collateral of the vault and the weth balance of the
\* ledger are what they were before the call.
C25_FailedBurnWithdrawNoEffect ==
    (last.op = "burn_and_withdraw" /\ last.err # "ok") =>
        /\ Addressed.osqth_short_amount = AddressedBefore.osqth_short_amount
        /\ Addressed.collateral_amount = AddressedBefore.collateral_amount
        /\ ledger["weth"] = last.pre.ledger["weth"]

\* C26: liquidate is permitted only on an unsafe vault: on a vault that
\* satisfies the safety predicate it fails and changes neither the vault nor
\* the ledger, on a vault that violates the predicate it proceeds.
C26_LiquidateOnlyUnsafe ==
    last.op = "liquidate" =>
        IF Collateralized(AddressedBefore, last.pre.pool)
            THEN /\ last.err # "ok"
                 /\ vault = last.pre.vault
                 /\ ledger = last.pre.ledger
            ELSE last.err # "Can not liquidate safe vault"

\* C27: after a liquidate that completes without error the collateral of
\* the vault is 0 or at least the dust minimum.
C27_NoDustAfterLiquidation ==
    (last.op = "liquidate" /\ last.err = "ok") =>
        \/ Addressed.collateral_amount = Zero
        \/ FracLeq(MIN_COLLATERAL, Addressed.collateral_amount)

\* C28: a vault, once created, stays in the table, and its collateral, short
\* amount and attached position change only through operations addressed to
\* it; open_deposit_mint without a vault key leaves every existing vault
\* unchanged.
C28_VaultsPersist ==
    last.op \in {"open_deposit_mint", "deposit", "burn_and_withdraw", "liquidate", "update"} =>
        \A i \in 1..Len(last.pre.vault) :
            LET before == last.pre.vault[i]
                j == VaultIndex(vault, before.id)
                addressed == /\ last.op # "update"
                             /\ ~(last.op = "open_deposit_mint" /\ last.args.vault_key = None)
                             /\ last.vault_key = before.id
            IN  /\ j # 0
                /\ ~addressed => vault[j] = before

\* C29: update() checks every vault and liquidates those that violate the
\* safety predicate: after update() no vault with a short amount is unsafe.
C29_UpdateEnforcesCollateralization ==
    last.op = "update" =>
        \A i \in 1..Len(vault) :
            vault[i].osqth_short_amount # Zero => Collateralized(vault[i], pool)

(***************************************************************************)
(* The two bindings of a tick (Actuator.run, __set_row_to_markets).        *)
(***************************************************************************)
\* the set_market_status calls of a call log, in order
RECURSIVE Bindings(_)
Bindings(evs) ==
    IF evs = << >> THEN << >>
    ELSE IF evs[1].op = "set_market_status" THEN <<evs[1]>> \o Bindings(Tail(evs))
    ELSE Bindings(Tail(evs))

\* the markets in registration order that satisfy a flag
RECURSIVE Flagged(_, _)
Flagged(m, hu) ==
    IF m > Len(hu) THEN << >>
    ELSE IF hu[m] THEN <<m>> \o Flagged(m + 1, hu)
    ELSE Flagged(m + 1, hu)

\* one step of run() binds, or leaves alone, as the tick prescribes
TickBindingStep ==
    /\ (pc = "loop_head" /\ pc' = "bar") =>
          /\ calls' = [m \in MarketIds |-> Ev("set_market_status", m, FALSE, cur_timestamp')]
          /\ \A m \in MarketIds : ~has_update'[m]
    /\ (pc = "bar" /\ pc' \in {"bar", "refresh"}) =>
          /\ Bindings(calls') = Bindings(calls)
          /\ market_status' = market_status
    /\ (pc = "refresh" /\ pc' = "update") =>
          LET dirty == Flagged(1, has_update)
          IN  /\ Len(calls') = Len(calls) + Len(dirty)
              /\ \A i \in 1..Len(dirty) :
                    calls'[Len(calls) + i] = Ev("set_market_status", dirty[i], TRUE, cur_timestamp)
              /\ calls[Len(calls)].op = "on_bar"
              /\ \A m \in MarketIds : ~has_update'[m]
    /\ (pc = "refresh") => pc' = "update"
    /\ (pc = "update" /\ pc' = "update") =>
          /\ Bindings(calls') = Bindings(calls)
          /\ Last(calls').op = "update"

\* C30: in every tick each market gets set_market_status(t) once before the
\* triggers and on_bar, whatever its dirty flag; between on_bar and the
\* update() calls a market gets a second set_market_status(t) if and only
\* if its has_update flag is set at that moment, and none during the
\* callbacks or the update() calls.
C30_SecondBindingIffDirty == [][TickBindingStep]_vars

\* the update() calls begin after one of two markets was bound a second
\* time and the other was not
C30_Witness ==
    /\ pc = "update"
    /\ k = 1
    /\ Len(markets) = 2
    /\ Len(Bindings(calls)) = 3
    /\ calls[Len(calls)].upd = TRUE

(***************************************************************************)
(* Properties of the order matching.                                       *)
(***************************************************************************)
\* the side of the book a trade works on
SideOf(data, report) ==
    IF report.op = "buy" THEN data.book[report.instrument].asks
                         ELSE data.book[report.instrument].bids

\* the last operation is a trade that got past _check_transaction
Matched == last.op \in {"buy", "sell"} /\ last.amount > 0

\* the orders that the difference of two states of a side amounts to
RECURSIVE TakenOrders(_, _)
TakenOrders(before, after) ==
    IF before = << >> THEN << >>
    ELSE (IF Head(before).amount # Head(after).amount
              THEN <<Order(Whole(Head(before).price), Head(before).amount - Head(after).amount)>>
              ELSE << >>)
         \o TakenOrders(Tail(before), Tail(after))

\* C31: a trade without target price against a book that covers it consumes
\* the levels in list order: a later level is touched only when every earlier
\* level is used up, the matched orders sum to the requested amount, each
\* matched level is decremented by what was taken from it, and no level is
\* left with a negative amount.
C31_SweepInListOrder ==
    (Matched /\ last.target = None) =>
        LET before == SideOf(last.pre.data, last)
            after == SideOf(status_data, last)
        IN  /\ Len(after) = Len(before)
            /\ \A i \in 1..Len(before) :
                  /\ after[i].price = before[i].price
                  /\ 0 <= after[i].amount
                  /\ after[i].amount <= before[i].amount
            /\ \A i, j \in 1..Len(before) :
                  (i < j /\ after[j].amount < before[j].amount) => after[i].amount = 0
            /\ SumAmount(last.orders) = last.amount
            /\ last.orders = TakenOrders(before, after)

\* a buy of two units took the one unit of the first level and one of the
\* two of the second
C31_Witness ==
    /\ Matched
    /\ last.op = "buy"
    /\ last.target = None
    /\ Len(last.orders) = 2
    /\ SideOf(status_data, last)[1].amount = 0
    /\ SideOf(status_data, last)[2].amount > 0

\* the levels of a side whose price lies in the band around a target
InBandLevels(side, target) == {i \in 1..Len(side) : InBand(target, side[i].price)}

\* C32 (as claimed): a trade with a target price touches exactly one level,
\* the first whose price lies within the band around the target: that level
\* is decremented by the traded amount, one order of that amount at that
\* price is returned, the notional is price x amount, and every other level
\* of the book is as before.
C32_TargetTouchesOneLevel ==
    (Matched /\ last.target # None) =>
        LET before == SideOf(last.pre.data, last)
            after == SideOf(status_data, last)
            first == CHOOSE i \in InBandLevels(before, last.target) :
                         \A j \in InBandLevels(before, last.target) : i <= j
        IN  /\ Len(after) = Len(before)
            /\ after[first] = Level(before[first].price, before[first].amount - last.amount)
            /\ \A i \in 1..Len(before) : i # first => after[i] = before[i]
            /\ last.orders = <<Order(Whole(before[first].price), last.amount)>>
            /\ last.total_premium = before[first].price * last.amount

\* C33: every position of the table has amount > 0 and amount = buy_amount
\* - sell_amount; when a sell returns, the position it sold from is out of
\* the table if the sell brought its amount to zero or below, and is in the
\* table with the lowered amount otherwise.
C33_PositionAmounts ==
    /\ \A i \in 1..Len(option_positions) :
          /\ option_positions[i].amount > 0
          /\ option_positions[i].amount =
                 option_positions[i].buy_amount - option_positions[i].sell_amount
    /\ (last.op = "sell" /\ last.err = "ok") =>
          LET held == PositionOf(last.pre.positions, last.instrument)
              i == PositionIndex(option_positions, last.instrument)
          IN  IF held.amount - last.amount <= 0
                  THEN i = 0
                  ELSE i # 0 /\ option_positions[i].amount = held.amount - last.amount

\* a sell of one unit returned and left one of the two units bought in the
\* table
C33_Witness ==
    /\ last.op = "sell"
    /\ last.err = "ok"
    /\ PositionIndex(option_positions, last.instrument) # 0
    /\ PositionOf(option_positions, last.instrument).sell_amount = 1
    /\ PositionOf(option_positions, last.instrument).buy_amount = 2
    /\ PositionOf(option_positions, last.instrument).amount = 1

\* C34 (as claimed): a buy that fails because the ledger cannot cover the
\* notional and the fee has no effect: the book, the positions and the ledger
\* are as before the call and no action is recorded.
C34_FailedBuyNoEffect ==
    (last.op = "buy" /\ last.err = "insufficient balance") =>
        /\ status_data = last.pre.data
        /\ option_positions = last.pre.positions
        /\ ledger = last.pre.ledger
        /\ last.actions = << >>

\* the amount of the instrument held before the reported trade: what was
\* bought and not yet sold
HeldBefore(report) ==
    IF PositionIndex(report.pre.positions, report.instrument) = 0
        THEN 0 ELSE PositionOf(report.pre.positions, report.instrument).amount

\* C39 (as claimed): no more is sold than is held: a sell whose amount
\* exceeds the amount of the position is rejected and the ledger is not
\* credited, so the amounts credited for sells never exceed the amounts
\* bought.
C39_NeverSellsMoreThanHeld ==
    (last.op = "sell" /\ Matched /\ last.amount > HeldBefore(last)) =>
        /\ last.err # "ok"
        /\ ledger = last.pre.ledger

(***************************************************************************)
(* Further properties of the vault venue.                                  *)
(***************************************************************************)
\* C35: the short amount of every vault is at least 0: a burn of more than
\* the outstanding short sets it to exactly zero and a smaller burn lowers it
\* by the amount burned; a liquidate, with its debt reduction, neither raises
\* the short amount nor removes more than was outstanding.
C35_ShortNeverNegative ==
    /\ \A i \in 1..Len(vault) : FracLeq(Zero, vault[i].osqth_short_amount)
    /\ (last.op = "burn_and_withdraw" /\ FracLt(Zero, last.args.burn)) =>
          FracEq(Addressed.osqth_short_amount,
                 IF FracLt(AddressedBefore.osqth_short_amount, last.args.burn)
                     THEN Zero
                     ELSE FracSub(AddressedBefore.osqth_short_amount, last.args.burn))
    /\ last.op = "liquidate" =>
          /\ FracLeq(Addressed.osqth_short_amount, AddressedBefore.osqth_short_amount)
          /\ (last.err = "ok" =>
                 FracLeq(last.returned, AddressedBefore.osqth_short_amount))

\* a burn of 0.3 on a vault that was short 0.2 left it short 0
C35_Witness ==
    /\ last.op = "burn_and_withdraw"
    /\ FracLt(Zero, AddressedBefore.osqth_short_amount)
    /\ FracLt(AddressedBefore.osqth_short_amount, last.args.burn)
    /\ Addressed.osqth_short_amount = Zero

(***************************************************************************)
(* _get_liquidation_result on its own: the status is bound to one row and  *)
(* the function is applied to a maximum, a short amount and a collateral.  *)
(***************************************************************************)
\* rows that differ in the time-weighted price of osqth
LiquidationRowChoices ==
    {[norm_factor |-> Frac(1, 2), weth |-> Whole(1), osqth |-> p] : p \in {Whole(1), Frac(1, 4)}}

MaxAmountChoices == {Frac(1, 10), Frac(1, 5), Frac(2, 5), Whole(1)}

ShortChoices == {Frac(1, 5), Frac(2, 5), Whole(1)}

CollateralChoices == {Zero, Frac(1, 10), Frac(1, 2), Frac(3, 5), Whole(1), Whole(2)}

\* _get_liquidation_result(max_osqth_amount, vault_short_amount,
\* vault_collateral_amount)
GetLiquidationResultCall ==
    /\ \E max_osqth_amount \in MaxAmountChoices, vault_short_amount \in ShortChoices,
          vault_collateral_amount \in CollateralChoices :
          last' = SqueethReport("get_liquidation_result", None,
                                [max |-> max_osqth_amount, short |-> vault_short_amount,
                                 collateral |-> vault_collateral_amount],
                                "ok",
                                GetLiquidationResult(squeeth_status, max_osqth_amount,
                                                     vault_short_amount,
                                                     vault_collateral_amount),
                                SqueethState)
    /\ UNCHANGED <<allow_negative_balance, venue_data, ledger, status_timestamp, status_data,
                   option_positions, prior, venue_ops, vault, squeeth_status, pool>>
    /\ UNCHANGED actuator

LiquidationInit ==
    /\ ActuatorAtRest
    /\ allow_negative_balance = FALSE
    /\ venue_data = << >>
    /\ ledger = [t \in SqueethTokens |-> Zero]
    /\ status_timestamp = 1
    /\ status_data = << >>
    /\ option_positions = << >>
    /\ last = NoOperation
    /\ prior = NoOperation
    /\ venue_ops = 0
    /\ vault = << >>
    /\ squeeth_status \in LiquidationRowChoices
    /\ pool = << >>

LiquidationNext == GetLiquidationResultCall

LiquidationSpec == LiquidationInit /\ [][LiquidationNext]_vars

\* 1.1 x amount x the time-weighted price of osqth
SeizedFor(amount) == FracMul(FracMul(amount, squeeth_status.osqth), Frac(11, 10))

\* C36: _get_liquidation_result(max, short, collateral) liquidates
\* min(max, short/2) at 1.1 x amount x osqth price; if that leaves
\* 0 < collateral - seized < 0.5 it takes min(max, short) instead; if the
\* seized amount then exceeds the collateral it returns (short, collateral).
\* So the seized collateral never exceeds the collateral and the liquidated
\* amount never exceeds the short amount.
C36_LiquidationResult ==
    last.op = "get_liquidation_result" =>
        LET max == last.args.max
            short == last.args.short
            collateral == last.args.collateral
            half == FracMin(max, FracDiv(short, Whole(2)))
            whole == FracMin(max, short)
            left == FracSub(collateral, SeizedFor(half))
            amount == IF FracLt(Zero, left) /\ FracLt(left, Frac(1, 2)) THEN whole ELSE half
            capped == FracLt(collateral, SeizedFor(amount))
        IN  /\ FracEq(last.returned.final_amount, IF capped THEN short ELSE amount)
            /\ FracEq(last.returned.collateral_to_pay,
                      IF capped THEN collateral ELSE SeizedFor(amount))
            /\ FracLeq(last.returned.collateral_to_pay, collateral)
            /\ FracLeq(last.returned.final_amount, short)

\* the half liquidation would leave dust, the whole short is taken instead
\* and its price exceeds the collateral: the result is capped
C36_Witness ==
    /\ last.op = "get_liquidation_result"
    /\ FracLt(SeizedFor(FracDiv(last.args.short, Whole(2))), last.args.collateral)
    /\ FracLt(FracSub(last.args.collateral, SeizedFor(FracDiv(last.args.short, Whole(2)))),
              Frac(1, 2))
    /\ FracLt(last.args.collateral, SeizedFor(last.args.short))
    /\ last.returned.final_amount = last.args.short
    /\ last.returned.collateral_to_pay = last.args.collateral

\* the position a vault had attached before the last operation
RedeemedPosition == last.pre.pool[AddressedBefore.uni_nft_id]

\* the vault after the redemption of its position when bounty is taken out
\* of the collateral
ReducedVault(bounty) ==
    [AddressedBefore EXCEPT
        !.osqth_short_amount = FracSub(@, FracMin(RedeemedPosition.osqth, @)),
        !.collateral_amount = FracSub(FracAdd(@, RedeemedPosition.weth), bounty),
        !.uni_nft_id = None]

\* the osqth redeemed beyond the short amount
Excess ==
    FracSub(RedeemedPosition.osqth,
            FracMin(RedeemedPosition.osqth, AddressedBefore.osqth_short_amount))

\* what the redemption of the attached position does when bounty is taken
\* out of the collateral: the position is detached, the excess is credited,
\* and if the vault is safe after the step the call returns 0 with the vault
\* as the step left it
RedeemsFirst(bounty) ==
    /\ Addressed.uni_nft_id = None
    /\ FracEq(ledger["osqth"], FracAdd(last.pre.ledger["osqth"], Excess))
    /\ ledger["weth"] = last.pre.ledger["weth"]
    /\ IsSafe(ReducedVault(bounty), pool) =>
          /\ last.err = "ok"
          /\ last.returned = Zero
          /\ FracEq(Addressed.osqth_short_amount, ReducedVault(bounty).osqth_short_amount)
          /\ FracEq(Addressed.collateral_amount, ReducedVault(bounty).collateral_amount)

\* C37 (as claimed): liquidate first redeems the attached position: the short
\* amount is reduced by min(redeemed osqth, short), the excess osqth is
\* credited to the ledger, the redeemed weth is added to the collateral and
\* the position is detached; if the vault is then safe, liquidate returns 0,
\* no collateral is taken and no further debt is removed.
C37_RedeemAddsAllToCollateral ==
    (last.op = "liquidate" /\ AddressedBefore.uni_nft_id # None) => RedeemsFirst(Zero)

\* the errors of _deposit_uni_position
AttachErrors ==
    {"Position is not in squeeth-eth pool", "Require liquidity in squeeth-eth pool",
     "This vault already has a NFT collateral"}

\* C38: a vault holds at most one position: attaching a position fails when
\* the vault already has one attached, when the pool does not hold the
\* position or when the position has no liquidity, and then the vault's
\* reference is as before and the position is not transferred out of the
\* pool; otherwise the vault refers to the position and the pool has handed
\* it over.
C38_OnePositionPerVault ==
    (last.op = "open_deposit_mint" /\ last.args.uni_position # None) =>
        LET position == last.pre.pool[last.args.uni_position]
            refused == \/ AddressedBefore.uni_nft_id # None
                       \/ ~position.listed
                       \/ position.liquidity <= 0
        IN  IF refused
                THEN /\ last.err \in AttachErrors
                     /\ Addressed.uni_nft_id = AddressedBefore.uni_nft_id
                     /\ pool = last.pre.pool
                ELSE /\ last.err \notin AttachErrors
                     /\ Addressed.uni_nft_id = last.args.uni_position
                     /\ ~pool[last.args.uni_position].listed

\* a second position, held by the pool and liquid, was offered to a vault
\* that has one attached: refused, the vault keeps the first and the pool the
\* second
C38_Witness ==
    /\ last.op = "open_deposit_mint"
    /\ last.args.uni_position # None
    /\ last.err = "This vault already has a NFT collateral"
    /\ AddressedBefore.uni_nft_id # None
    /\ AddressedBefore.uni_nft_id # last.args.uni_position
    /\ Addressed.uni_nft_id = AddressedBefore.uni_nft_id
    /\ pool[last.args.uni_position].listed
    /\ pool[last.args.uni_position].liquidity > 0

\* the osqth a burn_and_withdraw takes off the short amount of the vault
Burned == FracMin(last.args.burn, AddressedBefore.osqth_short_amount)

\* C40: the operations on a vault conserve the ledger: a successful
\* open_deposit_mint debits the collateral it deposits from the weth balance
\* of the ledger, and a successful burn_and_withdraw debits the osqth it
\* burns from the osqth balance of the ledger.
C40_LedgerConserved ==
    /\ (last.op = "open_deposit_mint" /\ last.err = "ok") =>
           FracEq(ledger["weth"], FracSub(last.pre.ledger["weth"], last.args.deposit))
    /\ (last.op = "burn_and_withdraw" /\ last.err = "ok") =>
           FracEq(ledger["osqth"], FracSub(last.pre.ledger["osqth"], Burned))

====
